---- MODULE Spec2Model ----
(***************************************************************************)
(* A model of specli: the naming planner and command model, the request    *)
(* builder and executor, the renderer, and the auth summary.               *)
(*                                                                         *)
(* Strings that the program only compares are TLA+ strings.  A kebab-case  *)
(* string ("get-user-files") is the sequence of its dash-separated words   *)
(* (<<"get","user","files">>); an identifier given to kebabCase is given   *)
(* as the words kebabCase splits it into.  A path is the sequence of its   *)
(* "/"-separated segments, a segment the sequence of its "."-separated     *)
(* parts; a parameter segment "{id}" is the one-part segment <<"{id}">>.   *)
(***************************************************************************)
EXTENDS Integers, Sequences, FiniteSets, TLC

VARIABLES
    ops,        \* planner: the NormalizedOperation list given to planOperations
    planned,    \* planner: the PlannedOperation list it returns
    model,      \* planner: the CommandModel built from it (resources)
    planPc,     \* planner: "input" | "planned" | "built"
    call,       \* executor: "execute" | "prepare", the function called
    inp,        \* executor: its input and the environment it reads
    pc,         \* executor: "start" | "built" | "inflight" | "done"
    built,      \* executor: what buildRequest returned
    result,     \* executor: the CommandResult returned
    thrown,     \* executor: the exception that left the call, if any
    fetchCalls, \* executor: how many times the HTTP fetcher was invoked
    rendered,   \* renderer: the CommandResult given to writeResult
    written,    \* renderer: what writeResult wrote (stream, exit code)
    security,   \* auth summary: the document's and the operation's security
    summary,    \* auth summary: the operation indexed and its AuthSummary
    helper,     \* helpers: which part of the program is exercised on its own
    arg,        \* helpers: its input
    ret,        \* helpers: what it has computed so far
    profilesFile,  \* cli: the contents of profiles.json
    secrets,       \* cli: the secret store, token by profile name
    isBun,         \* cli: whether the runtime has a secret store
    lastLogin,     \* cli: the token of the latest login not yet logged out
    sent,          \* cli: what buildRequest returned to the command that ran
    invocations,   \* cli: how many commands have run
    contextCache,  \* ai tools: the specs that have a cached context
    toolCalls,     \* ai tools: each tool call's position and spec
    builds         \* ai tools: contexts built per spec since its last clear

planVars == <<ops, planned, model, planPc>>

execVars == <<call, inp, pc, built, result, thrown, fetchCalls>>

renderVars == <<rendered, written>>

authVars == <<security, summary>>

\* one call of a pure helper: which helper, its argument, what it returned
helperVars == <<helper, arg, ret>>

mainVars == <<profilesFile, secrets, isBun, lastLogin, sent, invocations>>

toolVars == <<contextCache, toolCalls, builds>>

vars == <<planVars, execVars, renderVars, authVars, helperVars, mainVars, toolVars>>

\* undefined / null, and a value that is not there
Undef == "<undefined>"

None == [type |-> "none"]

\* the parts of the program a behaviour does not exercise stay idle
IdlePlan == ops = <<>> /\ planned = <<>> /\ model = <<>> /\ planPc = "idle"

IdleExec ==
    /\ call = "idle" /\ inp = None /\ pc = "idle" /\ built = None
    /\ result = None /\ thrown = Undef /\ fetchCalls = 0

IdleRender == rendered = None /\ written = None

IdleAuth == security = None /\ summary = None

IdleHelpers == helper = "idle" /\ arg = None /\ ret = None

IdleCli ==
    /\ profilesFile = None /\ secrets = None /\ isBun = FALSE
    /\ lastLogin = Undef /\ sent = None /\ invocations = 0

IdleTools == contextCache = {} /\ toolCalls = <<>> /\ builds = <<>>

----------------------------------------------------------------------------
(* Bounds and input domains of the planner.                                *)

MaxOps == 2

Methods == {"GET", "POST"}

\* "{id}", "{orgId}" and "{org_id}" as they stand in a path template
ParamParts == {"{id}", "{orgId}", "{org_id}"}

Paths ==
    { << <<"users">> >>,
      << <<"users">>, <<"{id}">>, <<"files">> >>,
      << <<"teams">>, <<"{id}">>, <<"files">> >>,
      << <<"users", "get">> >>,
      << <<"users">>, <<"id">>, <<"files">> >> }

NoOperationId == [sep |-> "absent", prefix |-> <<>>, suffix |-> <<>>]

\* absent, "getUserFiles", "Users.get"
OperationIds ==
    { NoOperationId,
      [sep |-> "none", prefix |-> <<>>, suffix |-> <<"get", "user", "files">>],
      [sep |-> "dot", prefix |-> <<"users">>, suffix |-> <<"get">>] }

TagLists == { <<>>, <<"users">> }

\* The words of the model in ascending (localeCompare) order.
WordOrder ==
    << "{id}", "1", "2", "3", "api", "apis", "create", "delete", "file",
       "files", "get", "id", "list", "post", "team", "teams", "update", "user",
       "users" >>

\* s.replace(/s$/, "") and pluralize(), on the words of the model.
SingularOf ==
    [w \in {"apis", "files", "teams", "users"} |->
        CASE w = "apis" -> "api"
          [] w = "files" -> "file"
          [] w = "teams" -> "team"
          [] w = "users" -> "user"]

----------------------------------------------------------------------------
(* Strings.                                                                *)

WordRank(w) == CHOOSE i \in 1..Len(WordOrder) : WordOrder[i] = w

\* a.localeCompare(b) < 0 on kebab strings, word by word
RECURSIVE KebabLess(_, _)
KebabLess(a, b) ==
    IF a = <<>> THEN b # <<>>
    ELSE IF b = <<>> THEN FALSE
    ELSE IF Head(a) # Head(b) THEN WordRank(Head(a)) < WordRank(Head(b))
    ELSE KebabLess(Tail(a), Tail(b))

\* the words of a path, for comparing two paths
RECURSIVE Flatten(_)
Flatten(ss) == IF ss = <<>> THEN <<>> ELSE Head(ss) \o Flatten(Tail(ss))

\* word.replace(/s$/, "")
StripS(w) == IF w \in DOMAIN SingularOf THEN SingularOf[w] ELSE w

\* pluralize(word): a word ending in "s" is kept, others get their plural
pluralizeWord(w) ==
    IF w \in DOMAIN SingularOf THEN w
    ELSE IF \E p \in DOMAIN SingularOf : SingularOf[p] = w
         THEN CHOOSE p \in DOMAIN SingularOf : SingularOf[p] = w
         ELSE w

\* pluralize() of a kebab string changes its last word
pluralize(k) ==
    IF k = <<>> THEN k
    ELSE SubSeq(k, 1, Len(k) - 1) \o <<pluralizeWord(k[Len(k)])>>

\* resource.replace(/s$/, "") of a kebab string
singular(k) ==
    IF k = <<>> THEN k
    ELSE SubSeq(k, 1, Len(k) - 1) \o <<StripS(k[Len(k)])>>

toLowerCase(m) ==
    CASE m = "GET" -> "get"
      [] m = "POST" -> "post"
      [] OTHER -> m

\* name.startsWith(`${pat}-`)
StartsWithDash(name, pat) ==
    /\ pat # <<>>
    /\ Len(name) > Len(pat)
    /\ SubSeq(name, 1, Len(pat)) = pat

\* name.endsWith(`-${pat}`)
EndsWithDash(name, pat) ==
    /\ pat # <<>>
    /\ Len(name) > Len(pat)
    /\ SubSeq(name, Len(name) - Len(pat) + 1, Len(name)) = pat

\* the positions i with name[i..] = pat, a dash before and a dash after
MiddleAt(name, pat) ==
    { i \in 2..Len(name) :
        /\ pat # <<>>
        /\ i + Len(pat) - 1 < Len(name)
        /\ SubSeq(name, i, i + Len(pat) - 1) = pat }

Min(S) == CHOOSE x \in S : \A y \in S : x <= y

\* name.replace(`-${pat}-`, "-"): the first occurrence only
RemoveMiddle(name, pat) ==
    LET i == Min(MiddleAt(name, pat))
    IN SubSeq(name, 1, i - 1) \o SubSeq(name, i + Len(pat), Len(name))

----------------------------------------------------------------------------
(* Naming planner (model/naming.ts).                                       *)

operationKey(method, path) == <<method, path>>

\* the NormalizedOperations the model draws from
Operations ==
    [key : {<<>>}, method : Methods, path : Paths,
     operationId : OperationIds, tags : TagLists]

IsParamSeg(seg) == Len(seg) = 1 /\ seg[1] \in ParamParts

\* getPathArgs: the template variables of the path, in order
getPathArgs(path) == Flatten(SelectSeq(path, IsParamSeg))

\* kebabCase of a template variable: "id", "org-id", "org-id"
kebabPathArg(part) == IF part = "{id}" THEN <<"id">> ELSE <<"org", "id">>

\* derivePositionals: a Map keyed by name, so one entry per distinct name,
\* in the order of first appearance
RECURSIVE derivePositionals(_)
derivePositionals(pathArgs) ==
    IF pathArgs = <<>> THEN <<>>
    ELSE LET before == derivePositionals(SubSeq(pathArgs, 1, Len(pathArgs) - 1))
             name == pathArgs[Len(pathArgs)]
         IN IF \E i \in 1..Len(before) : before[i].name = name THEN before
            ELSE Append(before, [name |-> name, required |-> TRUE])

GENERIC_TAGS == {"default", "defaults", "api"}

\* pickResourceFromTags: "" stands for undefined
pickResourceFromTags(tags) ==
    IF tags = <<>> THEN ""
    ELSE IF tags[1] \in GENERIC_TAGS THEN ""
    ELSE tags[1]

\* splitOperationId(...).prefix and .suffix, <<>> for undefined
splitPrefix(oid) == IF oid.sep \in {"dot", "us"} THEN oid.prefix ELSE <<>>

splitSuffix(oid) == oid.suffix

\* kebabCase(operationId)
kebabOperationId(oid) == oid.prefix \o oid.suffix

inferStyle(op) ==
    IF \E i \in 1..Len(op.path) : Len(op.path[i]) > 1 THEN "rpc"
    ELSE IF op.operationId.sep = "dot" /\ op.method = "POST" THEN "rpc"
    ELSE "rest"

inferResource(op) ==
    LET tag == pickResourceFromTags(op.tags)
        prefix == splitPrefix(op.operationId)
        first == IF op.path = <<>> THEN "api" ELSE op.path[1][1]
        cleaned == IF first \in ParamParts /\ Len(op.path[1]) = 1
                   THEN "api" ELSE first
    IN IF tag # "" THEN pluralize(<<tag>>)
       ELSE IF op.operationId.sep # "absent" /\ prefix # <<>>
            THEN IF prefix = <<"ping">> THEN <<"ping">> ELSE pluralize(prefix)
       ELSE IF first = "ping" THEN <<"ping">>
       ELSE pluralize(<<cleaned>>)

canonicalizeAction(a) ==
    IF a = <<"retrieve">> \/ a = <<"read">> THEN <<"get">>
    ELSE IF a = <<"list">> \/ a = <<"search">> THEN <<"list">>
    ELSE IF a = <<"create">> THEN <<"create">>
    ELSE IF a = <<"update">> \/ a = <<"patch">> THEN <<"update">>
    ELSE IF a = <<"delete">> \/ a = <<"remove">> THEN <<"delete">>
    ELSE a

inferRestAction(op) ==
    LET suffix == splitSuffix(op.operationId)
        fromId == canonicalizeAction(suffix)
        hasId == getPathArgs(op.path) # <<>>
        m == op.method
    IN IF /\ op.operationId.sep # "absent"
          /\ suffix # <<>>
          /\ fromId \in {<<"get">>, <<"list">>, <<"create">>, <<"update">>,
                         <<"delete">>}
       THEN fromId
       ELSE IF m = "GET" /\ ~hasId THEN <<"list">>
       ELSE IF m = "POST" /\ ~hasId THEN <<"create">>
       ELSE IF m = "GET" /\ hasId THEN <<"get">>
       ELSE IF m \in {"PUT", "PATCH"} /\ hasId THEN <<"update">>
       ELSE IF m = "DELETE" /\ hasId THEN <<"delete">>
       ELSE <<toLowerCase(m)>>

inferRpcAction(op) ==
    LET suffix == splitSuffix(op.operationId)
        last == IF op.path = <<>> THEN <<>> ELSE op.path[Len(op.path)]
    IN IF op.operationId.sep # "absent" /\ suffix # <<>>
       THEN canonicalizeAction(suffix)
       ELSE IF Len(last) > 1 THEN canonicalizeAction(<<last[Len(last)]>>)
       ELSE <<toLowerCase(op.method)>>

planOperation(op) ==
    LET style == inferStyle(op)
        action == IF style = "rpc" THEN inferRpcAction(op)
                  ELSE inferRestAction(op)
    IN [key |-> operationKey(op.method, op.path),
        method |-> op.method,
        path |-> op.path,
        operationId |-> op.operationId,
        tags |-> op.tags,
        style |-> style,
        resource |-> inferResource(op),
        action |-> action,
        canonicalAction |-> action,
        pathArgs |-> [i \in 1..Len(getPathArgs(op.path)) |->
                        kebabPathArg(getPathArgs(op.path)[i])],
        rawPathArgs |-> getPathArgs(op.path),
        aliasOf |-> <<>>]

\* actionSynonyms[action] ?? [action]
actionSynonyms(action) ==
    CASE action = <<"get">> ->
            {<<"get">>, <<"retrieve">>, <<"read">>, <<"list">>, <<"search">>}
      [] action = <<"list">> -> {<<"list">>, <<"search">>, <<"get">>}
      [] action = <<"create">> -> {<<"create">>, <<"post">>}
      [] action = <<"update">> -> {<<"update">>, <<"patch">>, <<"put">>}
      [] action = <<"delete">> -> {<<"delete">>, <<"remove">>}
      [] OTHER -> {action}

\* one round of the resourcePatterns loop, before its exact-match test
stripPattern(name, pat) ==
    IF StartsWithDash(name, pat)
    THEN SubSeq(name, Len(pat) + 1, Len(name))
    ELSE IF MiddleAt(name, pat) # {} THEN RemoveMiddle(name, pat)
    ELSE IF EndsWithDash(name, pat)
         THEN SubSeq(name, 1, Len(name) - Len(pat))
    ELSE name

\* extractDisambiguator: <<>> stands for null
extractDisambiguator(operationId, action, resource) ==
    LET name0 == kebabOperationId(operationId)
        hit == {s \in actionSynonyms(action) : StartsWithDash(name0, s)}
        name1 == IF hit = {} THEN name0
                 ELSE SubSeq(name0, Len(CHOOSE s \in hit : TRUE) + 1,
                             Len(name0))
        name2 == stripPattern(name1, resource)
        name3 == stripPattern(name2, singular(resource))
    IN IF name2 = resource THEN <<>>
       ELSE IF name3 = singular(resource) THEN <<>>
       ELSE IF name3 = <<>> \/ name3 = action THEN <<>>
       ELSE name3

IdxWords == <<"1", "2", "3">>

\* the last segment that is no parameter and not the resource, <<>> if none
RECURSIVE lastOtherSegment(_, _, _)
lastOtherSegment(segments, i, resource) ==
    IF i = 0 THEN <<>>
    ELSE IF IsParamSeg(segments[i]) THEN
        lastOtherSegment(segments, i - 1, resource)
    ELSE IF segments[i] # resource /\ segments[i] # singular(resource)
         THEN segments[i]
    ELSE lastOtherSegment(segments, i - 1, resource)

deriveDisambiguatedAction(op, idx) ==
    LET disambiguator ==
            IF op.operationId.sep # "absent"
            THEN extractDisambiguator(op.operationId, op.action, op.resource)
            ELSE <<>>
        seg == lastOtherSegment(op.path, Len(op.path), op.resource)
    IN IF disambiguator # <<>> THEN op.action \o disambiguator
       ELSE IF seg # <<>> THEN op.action \o seg
       ELSE op.action \o <<IdxWords[idx]>>

planOperations(os) ==
    LET pl == [i \in 1..Len(os) |-> planOperation(os[i])]
        same(i, j) == pl[i].resource = pl[j].resource
                      /\ pl[i].action = pl[j].action
        total(i) == Cardinality({j \in 1..Len(os) : same(i, j)})
        idx(i) == Cardinality({j \in 1..i : same(i, j)})
    IN [i \in 1..Len(os) |->
          IF total(i) <= 1 THEN pl[i]
          ELSE [pl[i] EXCEPT
                  !.action = deriveDisambiguatedAction(pl[i], idx(i)),
                  !.aliasOf = pl[i].resource \o pl[i].canonicalAction]]

----------------------------------------------------------------------------
(* Command model (model/command-model.ts).                                 *)

MethodLess(a, b) == a = "GET" /\ b = "POST"

\* the comparator of actions.sort(...)
ActionLess(a, b) ==
    IF a.action # b.action THEN KebabLess(a.action, b.action)
    ELSE IF a.path # b.path THEN KebabLess(Flatten(a.path), Flatten(b.path))
    ELSE MethodLess(a.method, b.method)

ResourceLess(a, b) == KebabLess(a.resource, b.resource)

\* actions.sort(...): Array.prototype.sort is stable; an insertion sort
RECURSIVE insertAction(_, _)
insertAction(x, s) ==
    IF s = <<>> THEN <<x>>
    ELSE IF ActionLess(x, Head(s)) THEN <<x>> \o s
    ELSE <<Head(s)>> \o insertAction(x, Tail(s))

sortActions_keepsOrder(acc, s) == acc \o s

RECURSIVE sortActions(_, _)
sortActions(acc, s) ==
    IF s = <<>> THEN acc
    ELSE sortActions(insertAction(Head(s), acc), Tail(s))

\* resources.sort(...)
RECURSIVE insertResource(_, _)
insertResource(x, s) ==
    IF s = <<>> THEN <<x>>
    ELSE IF ResourceLess(x, Head(s)) THEN <<x>> \o s
    ELSE <<Head(s)>> \o insertResource(x, Tail(s))

RECURSIVE sortResources(_, _)
sortResources(acc, s) ==
    IF s = <<>> THEN acc
    ELSE sortResources(insertResource(Head(s), acc), Tail(s))

\* kebabCase of an operation key "METHOD /path": the method in lower case,
\* then the words of the path, braces and separators dropped
RECURSIVE kebabOperationKey(_)
kebabOperationKey(key) ==
    IF key[2] = <<>> THEN <<toLowerCase(key[1])>>
    ELSE LET front == <<key[1], SubSeq(key[2], 1, Len(key[2]) - 1)>>
             seg == key[2][Len(key[2])]
         IN kebabOperationKey(front)
            \o (IF IsParamSeg(seg) THEN kebabPathArg(seg[1]) ELSE seg)

\* `${specId}:${kebab(resource)}:${kebab(action)}:${op}`
buildCommandId(parts) ==
    [specId |-> parts.specId, resource |-> parts.resource,
     action |-> parts.action, op |-> kebabOperationKey(parts.operationKey)]

CommandActionOf(op) ==
    [id |-> buildCommandId([specId |-> "x", resource |-> op.resource,
                            action |-> op.action, operationKey |-> op.key]),
     key |-> op.key, action |-> op.action, method |-> op.method,
     path |-> op.path, pathArgs |-> op.pathArgs,
     rawPathArgs |-> op.rawPathArgs,
     positionals |-> derivePositionals(op.pathArgs)]

\* the resources of a planned list, in order of first appearance
RECURSIVE resourcesOf(_)
resourcesOf(pl) ==
    IF pl = <<>> THEN <<>>
    ELSE LET r == pl[1].resource
             Other(p) == p.resource # r
         IN <<r>> \o resourcesOf(SelectSeq(Tail(pl), Other))

RECURSIVE MapActions(_)
MapActions(pl) ==
    IF pl = <<>> THEN <<>>
    ELSE <<CommandActionOf(Head(pl))>> \o MapActions(Tail(pl))

buildCommandModel(pl) ==
    LET rs == resourcesOf(pl)
        group(r) == LET In(p) == p.resource = r
                    IN sortActions(<<>>, MapActions(SelectSeq(pl, In)))
        unsorted == [i \in 1..Len(rs) |->
                        [resource |-> rs[i], actions |-> group(rs[i])]]
    IN sortResources(<<>>, unsorted)

----------------------------------------------------------------------------
(* The planner as a state machine: operations are indexed one by one, the  *)
(* list is planned, and the command model is built from the plan.          *)

InitPlan ==
    /\ ops = <<>>
    /\ planned = <<>>
    /\ model = <<>>
    /\ planPc = "input"
    /\ IdleExec /\ IdleRender /\ IdleAuth /\ IdleHelpers /\ IdleCli /\ IdleTools

\* one more operation of the document; keys ("METHOD path") are distinct
AddOperation ==
    /\ planPc = "input"
    /\ Len(ops) < MaxOps
    /\ \E o \in Operations :
          /\ \A i \in 1..Len(ops) :
                ops[i].key # operationKey(o.method, o.path)
          /\ ops' = Append(ops,
                       [o EXCEPT !.key = operationKey(o.method, o.path)])
    /\ UNCHANGED <<planned, model, planPc, execVars, renderVars, authVars,
                   helperVars, mainVars, toolVars>>

PlanOperations ==
    /\ planPc = "input"
    /\ ops # <<>>
    /\ planned' = planOperations(ops)
    /\ planPc' = "planned"
    /\ UNCHANGED <<ops, model, execVars, renderVars, authVars,
                   helperVars, mainVars, toolVars>>

BuildCommandModel ==
    /\ planPc = "planned"
    /\ model' = buildCommandModel(planned)
    /\ planPc' = "built"
    /\ UNCHANGED <<ops, planned, execVars, renderVars, authVars,
                   helperVars, mainVars, toolVars>>

NextPlan == AddOperation \/ PlanOperations \/ BuildCommandModel

SpecPlan == InitPlan /\ [][NextPlan]_vars

\* the (resource, action) pairs of a command model, one per action
RECURSIVE PairsOf(_)
PairsOf(m) ==
    IF m = <<>> THEN <<>>
    ELSE [i \in 1..Len(m[1].actions) |-> <<m[1].resource, m[1].actions[i].action>>]
         \o PairsOf(Tail(m))

\* C1: after planOperations and buildCommandModel, no two actions of the
\* CommandModel have the same (resource, action) pair.
C1_UniquePairs ==
    planPc = "built" =>
        \A i, j \in 1..Len(PairsOf(model)) :
            i # j => PairsOf(model)[i] # PairsOf(model)[j]

----------------------------------------------------------------------------
(* Renderer (runtime/render.ts): exit code and output stream of a result.  *)

Statuses == {200, 204, 404, 500}

Responses == [status : Statuses, ok : BOOLEAN]

DataKinds == {Undef, "schema", "whoami", "login", "logout"}

\* every CommandResult, as far as the renderer reads it
CommandResults ==
    [type : {"success"}, response : Responses, context : {FALSE},
     kind : {Undef}]
    \cup [type : {"error"}, response : Responses \cup {None},
          context : BOOLEAN, kind : {Undef}]
    \cup [type : {"validation"}, response : {None}, context : BOOLEAN,
          kind : {Undef}]
    \cup [type : {"prepared", "curl"}, response : {None}, context : {FALSE},
          kind : {Undef}]
    \cup [type : {"data"}, response : {None}, context : {FALSE},
          kind : DataKinds]

getExitCode_successIsZero(r) ==
    CASE r.type = "success" -> 0
      [] r.type \in {"error", "validation"} -> 1
      [] r.type \in {"prepared", "curl", "data"} -> 0

getExitCode(r) ==
    CASE r.type = "success" -> IF r.response.ok THEN 0 ELSE 1
      [] r.type \in {"error", "validation"} -> 1
      [] r.type \in {"prepared", "curl", "data"} -> 0

getOutputStream_byTypeOnly(r) ==
    CASE r.type = "success" -> "stdout"
      [] r.type \in {"error", "validation"} -> "stderr"
      [] r.type \in {"prepared", "curl", "data"} -> "stdout"

getOutputStream(r) ==
    CASE r.type = "success" -> IF r.response.ok THEN "stdout" ELSE "stderr"
      [] r.type \in {"error", "validation"} -> "stderr"
      [] r.type \in {"prepared", "curl", "data"} -> "stdout"

\* renderToText: the first line (its word and, after "HTTP", the status)
\* and what follows it
renderToText(r) ==
    CASE r.type = "success" ->
            [first |-> "", status |-> 0, rest |-> "response body"]
      [] r.type = "error" /\ r.response # None ->
            [first |-> "HTTP", status |-> r.response.status, rest |-> "response body"]
      [] r.type = "error" /\ r.response = None ->
            [first |-> "error:", status |-> 0, rest |-> "message"]
      [] OTHER -> [first |-> "", status |-> 0, rest |-> r.type]

\* the ok and status fields of the JSON rendering (status 0: no such field)
toJSON(r) ==
    CASE r.type = "success" -> [ok |-> TRUE, status |-> r.response.status]
      [] r.type = "error" ->
            [ok |-> FALSE,
             status |-> IF r.response # None THEN r.response.status ELSE 0]
      [] r.type = "validation" -> [ok |-> FALSE, status |-> 0]
      [] r.type \in {"prepared", "curl", "data"} -> [ok |-> TRUE, status |-> 0]

InitRender ==
    /\ rendered \in CommandResults
    /\ written = None
    /\ IdlePlan /\ IdleExec /\ IdleAuth /\ IdleHelpers /\ IdleCli /\ IdleTools

\* writeResult(result, {format}): render, pick the stream, set the exit code
WriteResult ==
    /\ rendered # None
    /\ written = None
    /\ \E format \in {"text", "json"} :
          written' = [type |-> "written",
                      format |-> format,
                      output |-> IF format = "json" THEN toJSON(rendered)
                                 ELSE renderToText(rendered),
                      stream |-> getOutputStream(rendered),
                      exitCode |-> getExitCode(rendered)]
    /\ UNCHANGED <<rendered, planVars, execVars, authVars,
                   helperVars, mainVars, toolVars>>

NextRender == WriteResult

SpecRender == InitRender /\ [][NextRender]_vars

\* C4: the exit code is 0 if and only if the result is a success whose
\* response.ok is true, or is prepared, curl or data; otherwise it is 1.
C4_ExitCode ==
    written # None =>
        /\ written.exitCode \in {0, 1}
        /\ written.exitCode = 0 <=>
              \/ rendered.type = "success" /\ rendered.response.ok
              \/ rendered.type \in {"prepared", "curl", "data"}

\* a success whose response is not ok was written, with exit code 1
C4_Witness ==
    /\ written # None
    /\ rendered.type = "success"
    /\ ~rendered.response.ok
    /\ written.exitCode = 1

\* C5 as stated: stdout for success, prepared, curl and data; stderr for
\* error and validation.
C5_StreamByType ==
    written # None =>
        written.stream =
            IF rendered.type \in {"success", "prepared", "curl", "data"}
            THEN "stdout" ELSE "stderr"

\* C5 amended: stdout for a success whose response is ok and for prepared,
\* curl and data; stderr for error, validation and a success whose response
\* is not ok.
C5_StreamByOutcome ==
    written # None =>
        written.stream =
            IF \/ rendered.type = "success" /\ rendered.response.ok
               \/ rendered.type \in {"prepared", "curl", "data"}
            THEN "stdout" ELSE "stderr"

\* a success whose response is not ok was written to stderr
C5_Witness ==
    /\ written # None
    /\ rendered.type = "success"
    /\ ~rendered.response.ok
    /\ written.stream = "stderr"

----------------------------------------------------------------------------
(* Auth requirements (parse/auth-requirements.ts) as indexed per operation *)
(* (parse/operations.ts).  A `security` value is Absent (undefined or      *)
(* null), NotAnArray, or an array of items; an item is a                   *)
(* SecurityRequirement, whose entries are [key, scopes] in Object.entries  *)
(* order, or the malformed item NotARequirement.                           *)

MaxSecurityLen == 2

Absent == [kind |-> "absent", items |-> <<>>]

NotAnArray == [kind |-> "not-array", items |-> <<>>]

NotIndexed == [kind |-> "not-indexed", items |-> <<>>]

ArrayOf(items) == [kind |-> "array", items |-> items]

NotARequirement == [valid |-> FALSE, entries |-> <<>>]

Requirement(entries) == [valid |-> TRUE, entries |-> entries]

\* scheme keys in localeCompare order
SchemeKeyOrder == <<"apiKey", "bearer", "oauth">>

SchemeKeyRank(k) == CHOOSE i \in 1..Len(SchemeKeyOrder) : SchemeKeyOrder[i] = k

SecurityRequirements ==
    { Requirement(<<>>),
      Requirement(<<[key |-> "bearer", scopes |-> <<>>]>>),
      Requirement(<<[key |-> "oauth", scopes |-> <<"read">>],
                    [key |-> "apiKey", scopes |-> <<>>]>>) }

SecurityItems == SecurityRequirements \cup {NotARequirement}

SecurityValues ==
    {Absent, NotAnArray}
    \cup { ArrayOf(items) :
             items \in UNION { [1..n -> SecurityItems] : n \in 0..MaxSecurityLen } }

KnownSchemeSets == { {}, {"oauth"}, {"apiKey", "bearer"} }

isSecurityRequirement(value) == value.valid

RECURSIVE filterRequirements(_)
filterRequirements(value) ==
    IF value = <<>> THEN <<>>
    ELSE IF isSecurityRequirement(Head(value))
         THEN <<Head(value)>> \o filterRequirements(Tail(value))
         ELSE filterRequirements(Tail(value))

normalizeSecurity(value) ==
    IF value = Absent \/ value.kind # "array"
    THEN [requirements |-> <<>>, source |-> "none"]
    ELSE LET reqs == filterRequirements(value.items)
         IN IF Len(reqs) = 0
            THEN [requirements |-> <<>>, source |-> "empty"]
            ELSE [requirements |-> reqs, source |-> "non-empty"]

\* a.key.localeCompare(b.key) < 0
KeyLess(a, b) == SchemeKeyRank(a.key) < SchemeKeyRank(b.key)

\* the second comparator: known schemes first, then by key
KnownFirstLess(a, b, known) ==
    LET ak == IF a.key \in known THEN 0 ELSE 1
        bk == IF b.key \in known THEN 0 ELSE 1
    IN IF ak # bk THEN ak < bk ELSE KeyLess(a, b)

RECURSIVE insertByKey(_, _)
insertByKey(x, sorted) ==
    IF sorted = <<>> THEN <<x>>
    ELSE IF KeyLess(x, Head(sorted)) THEN <<x>> \o sorted
    ELSE <<Head(sorted)>> \o insertByKey(x, Tail(sorted))

RECURSIVE sortByKey(_)
sortByKey(out) ==
    IF out = <<>> THEN <<>>
    ELSE insertByKey(out[Len(out)], sortByKey(SubSeq(out, 1, Len(out) - 1)))

RECURSIVE insertKnownFirst(_, _, _)
insertKnownFirst(x, sorted, known) ==
    IF sorted = <<>> THEN <<x>>
    ELSE IF KnownFirstLess(x, Head(sorted), known) THEN <<x>> \o sorted
    ELSE <<Head(sorted)>> \o insertKnownFirst(x, Tail(sorted), known)

RECURSIVE sortKnownFirst(_, _)
sortKnownFirst(out, known) ==
    IF out = <<>> THEN <<>>
    ELSE insertKnownFirst(out[Len(out)],
                          sortKnownFirst(SubSeq(out, 1, Len(out) - 1), known),
                          known)

toAlternatives(requirements, known) ==
    [i \in 1..Len(requirements) |->
        sortKnownFirst(sortByKey(requirements[i].entries), known)]

summarizeAuth_emptyFallsThrough(operationSecurity, globalSecurity, known) ==
    LET op == normalizeSecurity(operationSecurity)
        global == normalizeSecurity(globalSecurity)
    IN IF op.source = "non-empty"
       THEN [alternatives |-> toAlternatives(op.requirements, known)]
       ELSE IF global.source = "non-empty"
       THEN [alternatives |-> toAlternatives(global.requirements, known)]
       ELSE [alternatives |-> <<>>]

summarizeAuth(operationSecurity, globalSecurity, known) ==
    LET op == normalizeSecurity(operationSecurity)
        global == normalizeSecurity(globalSecurity)
    IN IF op.source = "non-empty"
       THEN [alternatives |-> toAlternatives(op.requirements, known)]
       ELSE IF op.source = "empty"
       THEN [alternatives |-> <<>>]
       ELSE IF global.source = "non-empty"
       THEN [alternatives |-> toAlternatives(global.requirements, known)]
       ELSE [alternatives |-> <<>>]

InitAuth ==
    /\ security \in [op : SecurityValues, doc : SecurityValues,
                     known : KnownSchemeSets, indexed : {NotIndexed}]
    /\ summary = None
    /\ IdlePlan /\ IdleExec /\ IdleRender /\ IdleHelpers /\ IdleCli /\ IdleTools

\* indexOperations: the NormalizedOperation's security is op.security ?? doc.security
IndexOperation ==
    /\ security.indexed = NotIndexed
    /\ security' = [security EXCEPT
                        !.indexed = IF security.op = Absent
                                    THEN security.doc ELSE security.op]
    /\ UNCHANGED <<summary, planVars, execVars, renderVars,
                   helperVars, mainVars, toolVars>>

\* buildCommandModel: auth = summarizeAuth(op.security, globalSecurity, authSchemes)
SummarizeAuth ==
    /\ security.indexed # NotIndexed
    /\ summary = None
    /\ summary' = summarizeAuth(security.indexed, security.doc, security.known)
    /\ UNCHANGED <<security, planVars, execVars, renderVars,
                   helperVars, mainVars, toolVars>>

NextAuth == IndexOperation \/ SummarizeAuth

SpecAuth == InitAuth /\ [][NextAuth]_vars

\* the scheme keys an alternative or a requirement names
KeySet(entries) == { entries[i].key : i \in 1..Len(entries) }

\* the [key, scopes] entries of an alternative or a requirement
EntrySet(entries) == { entries[i] : i \in 1..Len(entries) }

IsArray(value) == value.kind = "array"

\* alternatives carry exactly the well-formed requirements of `value`, in order
ComesFrom(alternatives, value) ==
    LET reqs == SelectSeq(value.items, LAMBDA item : item.valid)
    IN /\ Len(alternatives) = Len(reqs)
       /\ \A i \in 1..Len(reqs) :
             EntrySet(alternatives[i]) = EntrySet(reqs[i].entries)

\* C9: an operation whose own security is the empty array has no
\* alternatives whatever the document-level security is; an operation with
\* a non-empty own security takes its alternatives from the operation only;
\* the document-level security is used only when the operation declares no
\* security array.
C9_OperationSecurityOverrides ==
    summary # None =>
        /\ security.op = ArrayOf(<<>>) => summary.alternatives = <<>>
        /\ (IsArray(security.op) /\ security.op # ArrayOf(<<>>)) =>
               ComesFrom(summary.alternatives, security.op)
        /\ (summary.alternatives # <<>>
              /\ ~(IsArray(security.op)
                     /\ ComesFrom(summary.alternatives, security.op))) =>
               /\ ~IsArray(security.op)
               /\ IsArray(security.doc)
               /\ ComesFrom(summary.alternatives, security.doc)

\* an operation with `security: []` under a document that requires oauth
\* was summarised
C9_Witness ==
    /\ summary # None
    /\ security.op = ArrayOf(<<>>)
    /\ IsArray(security.doc)
    /\ \E i \in 1..Len(security.doc.items) :
          "oauth" \in KeySet(security.doc.items[i].entries)
    /\ summary.alternatives = <<>>

----------------------------------------------------------------------------
(* Request building (runtime/request.ts, runtime/server-url.ts,            *)
(* runtime/auth/resolve.ts).  A string option that is not given is Undef;  *)
(* a URL after template substitution is its template and the values of     *)
(* its variables.                                                          *)

NotReached == "<not reached>"

VarNames == {"region", "version"}

NoVars == [n \in VarNames |-> Undef]

\* `if (x)` on a string: neither undefined nor empty
Truthy(x) == x # Undef /\ x # ""

\* `a ?? b`
Coalesce(a, b) == IF a = Undef THEN b ELSE a

RangeOf(seq) == { seq[i] : i \in 1..Len(seq) }

extractTemplateVars(template) ==
    CASE template = "https://{region}.example.com" -> <<"region">>
      [] template = "https://{region}.example.com/{version}" ->
             <<"region", "version">>
      [] OTHER -> <<>>

\* template.replace(...): every placeholder replaced by its value
applyTemplate(template, values) ==
    [base |-> template,
     vars |-> [n \in VarNames |->
                  IF n \in RangeOf(extractTemplateVars(template))
                  THEN values[n] ELSE Undef]]

\* a name=value argument: hasEq is whether it contains '=', name and value
\* are the trimmed sides
Pair(name, value) == [hasEq |-> TRUE, name |-> name, value |-> value]

NoEqualsSign == [hasEq |-> FALSE, name |-> "", value |-> ""]

\* --server-var arguments
CliServerVars ==
    { <<>>,
      <<Pair("region", "eu")>>,
      <<Pair("region", "")>>,
      <<Pair("version", "v2")>>,
      <<Pair("region", "eu"), Pair("region", "cn")>>,
      <<Pair("", "eu")>>,
      <<NoEqualsSign>> }

RECURSIVE parseKeyValuePairs(_)
parseKeyValuePairs(pairs) ==
    IF pairs = <<>> THEN [thrown |-> Undef, out |-> NoVars]
    ELSE LET before == parseKeyValuePairs(SubSeq(pairs, 1, Len(pairs) - 1))
             pair == pairs[Len(pairs)]
         IN IF before.thrown # Undef THEN before
            ELSE IF ~pair.hasEq
            THEN [thrown |-> "Invalid pair, expected name=value", out |-> NoVars]
            ELSE IF pair.name = ""
            THEN [thrown |-> "Invalid pair, missing name", out |-> NoVars]
            ELSE [thrown |-> Undef,
                  out |-> [before.out EXCEPT ![pair.name] = pair.value]]

\* servers.find((s) => s.url === base)?.variables.find((x) => x.name === name)?.default
specDefault(servers, base, name) ==
    LET matches == { i \in 1..Len(servers) : servers[i].url = base }
    IN IF matches = {} THEN Undef
       ELSE LET variables ==
                    servers[CHOOSE i \in matches : \A j \in matches : i <= j].variables
                named == { k \in 1..Len(variables) : variables[k].name = name }
            IN IF named = {} THEN Undef
               ELSE variables[CHOOSE k \in named : \A l \in named : k <= l].default

resolveServerUrl_specDefaultFirst(serverOverride, servers, serverVars) ==
    LET base == IF Truthy(serverOverride) THEN serverOverride
                ELSE IF Len(servers) > 0 THEN servers[1].url ELSE Undef
        names == extractTemplateVars(base)
        valueOf(name) == IF specDefault(servers, base, name) # Undef
                         THEN specDefault(servers, base, name)
                         ELSE serverVars[name]
    IN IF ~Truthy(base)
       THEN [thrown |-> "No server URL found", url |-> applyTemplate(base, NoVars)]
       ELSE IF \E i \in 1..Len(names) : valueOf(names[i]) = Undef
       THEN [thrown |-> "Missing server variable",
             url |-> applyTemplate(base, NoVars)]
       ELSE [thrown |-> Undef,
             url |-> applyTemplate(base, [n \in VarNames |-> valueOf(n)])]

resolveServerUrl(serverOverride, servers, serverVars) ==
    LET base == IF Truthy(serverOverride) THEN serverOverride
                ELSE IF Len(servers) > 0 THEN servers[1].url ELSE Undef
        names == extractTemplateVars(base)
        valueOf(name) == IF serverVars[name] # Undef THEN serverVars[name]
                         ELSE specDefault(servers, base, name)
    IN IF ~Truthy(base)
       THEN [thrown |-> "No server URL found", url |-> applyTemplate(base, NoVars)]
       ELSE IF \E i \in 1..Len(names) : valueOf(names[i]) = Undef
       THEN [thrown |-> "Missing server variable",
             url |-> applyTemplate(base, NoVars)]
       ELSE [thrown |-> Undef,
             url |-> applyTemplate(base, [n \in VarNames |-> valueOf(n)])]

BEARER_COMPATIBLE_KINDS == {"http-bearer", "oauth2", "openIdConnect"}

HasScheme(authSchemes, key) == \E i \in 1..Len(authSchemes) : authSchemes[i].key = key

\* authSchemes.find((s) => s.key === key), for a key that HasScheme
FindScheme(authSchemes, key) ==
    authSchemes[CHOOSE i \in 1..Len(authSchemes) :
                   /\ authSchemes[i].key = key
                   /\ \A j \in 1..(i - 1) : authSchemes[j].key # key]

\* the alternatives the stored-token rule accepts: a single scheme of the
\* spec, of a bearer-compatible kind
BearerAlternatives(authSchemes, alts) ==
    { i \in 1..Len(alts) :
        /\ Len(alts[i]) = 1
        /\ HasScheme(authSchemes, alts[i][1].key)
        /\ FindScheme(authSchemes, alts[i][1].key).kind \in BEARER_COMPATIBLE_KINDS }

resolveAuthScheme_embeddedUnchecked(authSchemes, required, inputs) ==
    LET alts == required.alternatives
        bearer == BearerAlternatives(authSchemes, alts)
    IN IF Truthy(inputs.flagAuthScheme) THEN inputs.flagAuthScheme
       ELSE IF /\ Truthy(inputs.profileAuthScheme)
               /\ HasScheme(authSchemes, inputs.profileAuthScheme)
       THEN inputs.profileAuthScheme
       ELSE IF Truthy(inputs.embeddedAuthScheme) THEN inputs.embeddedAuthScheme
       ELSE IF Len(alts) = 1 /\ Len(alts[1]) = 1 THEN alts[1][1].key
       ELSE IF Len(authSchemes) = 1 THEN authSchemes[1].key
       ELSE IF inputs.hasStoredToken /\ bearer # {}
       THEN alts[CHOOSE i \in bearer : \A j \in bearer : i <= j][1].key
       ELSE Undef

resolveAuthScheme(authSchemes, required, inputs) ==
    LET alts == required.alternatives
        bearer == BearerAlternatives(authSchemes, alts)
    IN IF Truthy(inputs.flagAuthScheme) THEN inputs.flagAuthScheme
       ELSE IF /\ Truthy(inputs.profileAuthScheme)
               /\ HasScheme(authSchemes, inputs.profileAuthScheme)
       THEN inputs.profileAuthScheme
       ELSE IF /\ Truthy(inputs.embeddedAuthScheme)
               /\ HasScheme(authSchemes, inputs.embeddedAuthScheme)
       THEN inputs.embeddedAuthScheme
       ELSE IF Len(alts) = 1 /\ Len(alts[1]) = 1 THEN alts[1][1].key
       ELSE IF Len(authSchemes) = 1 THEN authSchemes[1].key
       ELSE IF inputs.hasStoredToken /\ bearer # {}
       THEN alts[CHOOSE i \in bearer : \A j \in bearer : i <= j][1].key
       ELSE Undef

NoCredential == [kind |-> "none", value |-> Undef, name |-> Undef, in |-> Undef]

pickAuthSchemeKey(action, globals) ==
    LET req == action.auth.alternatives
    IN IF Truthy(globals.auth) THEN globals.auth
       ELSE IF Len(req) = 1 /\ Len(req[1]) = 1 THEN req[1][1].key
       ELSE Undef

\* the credential applyAuth puts on the request, or the error it throws
applyAuth(action, globals, authSchemes) ==
    LET schemeKey == pickAuthSchemeKey(action, globals)
        scheme == FindScheme(authSchemes, schemeKey)
        token == Coalesce(globals.bearerToken, globals.oauthToken)
        none == [thrown |-> Undef, credential |-> NoCredential]
        throw(message) == [thrown |-> message, credential |-> NoCredential]
    IN IF ~Truthy(schemeKey) THEN none
       ELSE IF ~HasScheme(authSchemes, schemeKey) THEN throw("Unknown auth scheme")
       ELSE IF scheme.kind \in BEARER_COMPATIBLE_KINDS
       THEN IF ~Truthy(token) THEN throw("Missing token")
            ELSE [thrown |-> Undef,
                  credential |-> [kind |-> "bearer", value |-> token,
                                  name |-> "Authorization", in |-> "header"]]
       ELSE IF scheme.kind = "http-basic"
       THEN IF ~Truthy(globals.username) THEN throw("Missing --username")
            ELSE IF ~Truthy(globals.password) THEN throw("Missing --password")
            ELSE [thrown |-> Undef,
                  credential |-> [kind |-> "basic", value |-> globals.username,
                                  name |-> "Authorization", in |-> "header"]]
       ELSE IF scheme.kind = "api-key"
       THEN IF ~Truthy(scheme.name) THEN throw("apiKey scheme missing name")
            ELSE IF ~Truthy(scheme.in) THEN throw("apiKey scheme missing location")
            ELSE IF ~Truthy(globals.apiKey) THEN throw("Missing --api-key")
            ELSE IF scheme.in \in {"header", "query", "cookie"}
            THEN [thrown |-> Undef,
                  credential |-> [kind |-> "api-key", value |-> globals.apiKey,
                                  name |-> scheme.name, in |-> scheme.in]]
            ELSE none
       ELSE none

\* Ajv's verdicts are inputs: paramErrors holds the locations whose values
\* violate the derived schema; the message is formatAjvErrors of the first
validateParams(paramErrors) ==
    IF "query" \in paramErrors THEN "query: invalid"
    ELSE IF "header" \in paramErrors THEN "header: invalid"
    ELSE IF "cookie" \in paramErrors THEN "cookie: invalid"
    ELSE Undef

\* findMissingRequired: the required body fields without a flag value
findMissingRequired(flagValues, bodyFlagDefs) ==
    { i \in 1..Len(bodyFlagDefs) :
        bodyFlagDefs[i].required /\ bodyFlagDefs[i].name \notin flagValues }

\* the request body section of buildRequest
buildBody(input) ==
    LET requestBody == input.action.requestBody
        bodyFlagDefs == input.bodyFlagDefs
        hasBodyFlags == \E i \in 1..Len(bodyFlagDefs) :
                            bodyFlagDefs[i].name \in input.flagValues
        requiredFields == { i \in 1..Len(bodyFlagDefs) : bodyFlagDefs[i].required }
    IN IF ~requestBody.declared THEN [thrown |-> Undef, body |-> Undef]
       ELSE IF ~hasBodyFlags
       THEN IF requiredFields # {} THEN [thrown |-> "Required", body |-> Undef]
            ELSE IF requestBody.required THEN [thrown |-> Undef, body |-> "{}"]
            ELSE [thrown |-> Undef, body |-> Undef]
       ELSE IF ~requestBody.json
       THEN [thrown |-> "Body field flags are only supported for JSON request bodies",
             body |-> Undef]
       ELSE IF findMissingRequired(input.flagValues, bodyFlagDefs) # {}
       THEN [thrown |-> "Missing required fields", body |-> Undef]
       ELSE IF requestBody.hasSchema /\ ~input.bodyValid
       THEN [thrown |-> "body: invalid", body |-> Undef]
       ELSE [thrown |-> Undef, body |-> "JSON.stringify(built)"]

\* buildRequest: what it throws (Undef if nothing) and what it had computed
buildRequest(input) ==
    LET profile == IF input.profile.exists THEN input.profile
                   ELSE [exists |-> FALSE, server |-> Undef, authScheme |-> Undef]
        embedded == input.embeddedDefaults
        embeddedServerVars == parseKeyValuePairs(embedded.serverVars)
        cliServerVars == parseKeyValuePairs(input.globals.serverVar)
        serverVars == [n \in VarNames |->
                          Coalesce(cliServerVars.out[n], embeddedServerVars.out[n])]
        server == resolveServerUrl(
                      Coalesce(input.globals.server,
                               Coalesce(profile.server, embedded.server)),
                      input.servers, serverVars)
        params == validateParams(input.paramErrors)
        body == buildBody(input)
        storedToken == IF profile.exists THEN input.storedToken ELSE Undef
        resolvedAuthScheme ==
            resolveAuthScheme(input.authSchemes, input.action.auth,
                [flagAuthScheme |-> input.globals.auth,
                 profileAuthScheme |-> profile.authScheme,
                 embeddedAuthScheme |-> embedded.auth,
                 hasStoredToken |-> Truthy(storedToken)])
        tokenFromProfile == IF Truthy(resolvedAuthScheme) THEN storedToken ELSE Undef
        globalsWithProfileAuth ==
            [input.globals EXCEPT
                !.auth = resolvedAuthScheme,
                !.bearerToken = Coalesce(input.globals.bearerToken,
                                    Coalesce(input.globals.oauthToken,
                                             tokenFromProfile))]
        final == applyAuth(input.action, globalsWithProfileAuth, input.authSchemes)
        start == [thrown |-> Undef, url |-> applyTemplate(NotReached, NoVars),
                  body |-> Undef, authScheme |-> NotReached,
                  credential |-> NoCredential]
        atServer == [start EXCEPT !.url = server.url]
        atBody == [atServer EXCEPT !.body = body.body]
        atAuth == [atBody EXCEPT !.authScheme = resolvedAuthScheme,
                                 !.credential = final.credential]
    IN IF ~input.home THEN [start EXCEPT !.thrown = "Missing HOME env var"]
       ELSE IF embeddedServerVars.thrown # Undef
       THEN [start EXCEPT !.thrown = embeddedServerVars.thrown]
       ELSE IF cliServerVars.thrown # Undef
       THEN [start EXCEPT !.thrown = cliServerVars.thrown]
       ELSE IF server.thrown # Undef THEN [atServer EXCEPT !.thrown = server.thrown]
       ELSE IF ~input.positionalsGiven
       THEN [atServer EXCEPT !.thrown = "Missing template variable"]
       ELSE IF server.url.base = "not a url"
       THEN [atServer EXCEPT !.thrown = "Invalid URL"]
       ELSE IF params # Undef THEN [atServer EXCEPT !.thrown = params]
       ELSE IF body.thrown # Undef THEN [atServer EXCEPT !.thrown = body.thrown]
       ELSE IF final.thrown # Undef THEN [atAuth EXCEPT !.thrown = final.thrown]
       ELSE atAuth

----------------------------------------------------------------------------
(* execute and prepare (runtime/execute.ts) *)

NoProfile == [exists |-> FALSE, server |-> Undef, authScheme |-> Undef]

DefaultInput ==
    [home |-> TRUE,
     profile |-> NoProfile,
     storedToken |-> Undef,
     globals |-> [server |-> Undef, serverVar |-> <<>>, curl |-> FALSE,
                  auth |-> Undef, bearerToken |-> Undef, oauthToken |-> Undef,
                  username |-> Undef, password |-> Undef, apiKey |-> Undef],
     embeddedDefaults |-> [server |-> Undef, serverVars |-> <<>>, auth |-> Undef],
     servers |-> <<[url |-> "https://spec.example.com", variables |-> <<>>]>>,
     authSchemes |-> <<>>,
     action |-> [auth |-> [alternatives |-> <<>>],
                 requestBody |-> [declared |-> FALSE, required |-> FALSE,
                                  json |-> TRUE, hasSchema |-> TRUE]],
     bodyFlagDefs |-> <<>>,
     flagValues |-> {},
     bodyValid |-> TRUE,
     paramErrors |-> {},
     positionalsGiven |-> TRUE,
     cancelled |-> FALSE]

ServerLists ==
    { <<>>,
      <<[url |-> "https://spec.example.com", variables |-> <<>>]>>,
      <<[url |-> "https://{region}.example.com",
         variables |-> <<[name |-> "region", default |-> "us"]>>],
        [url |-> "https://spec.example.com", variables |-> <<>>]>>,
      <<[url |-> "https://{region}.example.com/{version}",
         variables |-> <<[name |-> "version", default |-> "v1"]>>]>> }

\* inputs that differ in where the server and its variables come from
ServerInputs ==
    { [DefaultInput EXCEPT
          !.globals.server = cliServer,
          !.globals.serverVar = cliVars,
          !.profile = profile,
          !.embeddedDefaults.server = embeddedServer,
          !.embeddedDefaults.serverVars = embeddedVars,
          !.servers = servers] :
        cliServer \in {Undef, "", "https://cli.example.com",
                       "https://{region}.example.com", "not a url"},
        cliVars \in CliServerVars,
        profile \in {NoProfile} \cup
                    [exists : {TRUE}, authScheme : {Undef},
                     server : {"", "https://profile.example.com"}],
        embeddedServer \in {Undef, "", "https://embedded.example.com",
                            "https://{region}.example.com/{version}"},
        embeddedVars \in { <<>>, <<Pair("region", "ap")>>, <<NoEqualsSign>> },
        servers \in ServerLists }

AuthSchemeOf(key) ==
    CASE key = "bearerAuth" ->
           [key |-> key, kind |-> "http-bearer", name |-> Undef, in |-> Undef]
      [] key = "oauthAuth" ->
           [key |-> key, kind |-> "oauth2", name |-> Undef, in |-> Undef]
      [] key = "basicAuth" ->
           [key |-> key, kind |-> "http-basic", name |-> Undef, in |-> Undef]
      [] key = "apiKeyAuth" ->
           [key |-> key, kind |-> "api-key", name |-> "X-API-Key", in |-> "header"]

AuthSchemeLists ==
    { <<>>,
      <<AuthSchemeOf("bearerAuth")>>,
      <<AuthSchemeOf("apiKeyAuth"), AuthSchemeOf("basicAuth"),
        AuthSchemeOf("oauthAuth"), AuthSchemeOf("bearerAuth")>> }

Needs(key) == [key |-> key, scopes |-> <<>>]

\* AuthSummary.alternatives of the action
AlternativeLists ==
    { <<>>,
      << <<Needs("bearerAuth")>> >>,
      << <<Needs("apiKeyAuth")>>, <<Needs("oauthAuth")>>, <<Needs("bearerAuth")>> >>,
      << <<Needs("basicAuth"), Needs("bearerAuth")>>, <<Needs("bearerAuth")>> >> }

\* inputs that differ in what could select the auth scheme
AuthInputs ==
    { input \in
      { [DefaultInput EXCEPT
          !.globals.auth = flagAuth,
          !.globals.bearerToken = credential,
          !.globals.username = credential,
          !.globals.password = credential,
          !.globals.apiKey = credential,
          !.profile = profile,
          !.storedToken = storedToken,
          !.embeddedDefaults.auth = embeddedAuth,
          !.authSchemes = authSchemes,
          !.action.auth.alternatives = alternatives] :
        flagAuth \in {Undef, "", "bearerAuth", "ghost"},
        credential \in {Undef, "secret"},
        profile \in {NoProfile} \cup
                    [exists : {TRUE}, server : {Undef},
                     authScheme : {Undef, "basicAuth", "ghost"}],
        storedToken \in {Undef, "stored-token"},
        embeddedAuth \in {Undef, "apiKeyAuth", "ghost"},
        authSchemes \in AuthSchemeLists,
        alternatives \in AlternativeLists } :
      \* login writes the profile before it stores the token
      input.storedToken # Undef => input.profile.exists }

BodyFlagDefLists ==
    { <<>>,
      <<[name |-> "email", required |-> FALSE]>>,
      <<[name |-> "name", required |-> TRUE],
        [name |-> "email", required |-> FALSE]>> }

\* inputs that differ in what validation meets
ValidationInputs ==
    { [DefaultInput EXCEPT
          !.home = home,
          !.globals.curl = curl,
          !.positionalsGiven = positionalsGiven,
          !.paramErrors = paramErrors,
          !.action.requestBody = requestBody,
          !.bodyFlagDefs = bodyFlagDefs,
          !.flagValues = flagValues,
          !.bodyValid = bodyValid] :
        home \in BOOLEAN,
        curl \in BOOLEAN,
        positionalsGiven \in BOOLEAN,
        paramErrors \in { {}, {"query"}, {"cookie"}, {"header", "cookie"} },
        requestBody \in [declared : BOOLEAN, required : BOOLEAN,
                         json : BOOLEAN, hasSchema : {TRUE}]
                        \cup [declared : {TRUE}, required : {FALSE},
                              json : {TRUE}, hasSchema : {FALSE}],
        bodyFlagDefs \in BodyFlagDefLists,
        flagValues \in SUBSET {"name", "email"},
        bodyValid \in BOOLEAN }

\* Response.ok
OkStatus(status) == status >= 200 /\ status <= 299

Returned(type, message, response) ==
    [result |-> [type |-> type, message |-> message, response |-> response],
     thrown |-> Undef]

catchError_rethrows(err) == [result |-> None, thrown |-> err]

\* catch (err) { return { type: "error", message: err.message } }
catchError(err) == Returned("error", err, None)

InitExec ==
    /\ call \in {"execute", "prepare"}
    /\ inp \in ServerInputs \cup AuthInputs \cup ValidationInputs
    /\ pc = "start"
    /\ built = None
    /\ result = None
    /\ thrown = Undef
    /\ fetchCalls = 0
    /\ IdlePlan /\ IdleRender /\ IdleAuth /\ IdleHelpers /\ IdleCli /\ IdleTools

\* prepare(input), which awaits nothing but buildRequest
Prepare ==
    /\ call = "prepare" /\ pc = "start"
    /\ LET request == buildRequest(inp)
           outcome == IF request.thrown # Undef THEN catchError(request.thrown)
                      ELSE Returned("prepared", Undef, None)
       IN /\ built' = [request |-> request, res |-> None]
          /\ result' = outcome.result
          /\ thrown' = outcome.thrown
    /\ pc' = "done"
    /\ UNCHANGED <<call, inp, fetchCalls, planVars, renderVars, authVars,
                   helperVars, mainVars, toolVars>>

Execute_fetchesBeforeCurl ==
    /\ call = "execute" /\ pc = "start"
    /\ LET request == buildRequest(inp)
       IN /\ built' = [request |-> request, res |-> None]
          /\ IF request.thrown = Undef
             THEN /\ fetchCalls' = fetchCalls + 1
                  /\ pc' = "fetching"
                  /\ UNCHANGED <<result, thrown>>
             ELSE /\ result' = catchError(request.thrown).result
                  /\ thrown' = catchError(request.thrown).thrown
                  /\ pc' = "done"
                  /\ UNCHANGED fetchCalls
    /\ UNCHANGED <<call, inp, planVars, renderVars, authVars,
                   helperVars, mainVars, toolVars>>

\* execute(input) up to its return or to the call of fetch
Execute ==
    /\ call = "execute" /\ pc = "start"
    /\ LET request == buildRequest(inp)
           outcome == IF request.thrown # Undef THEN catchError(request.thrown)
                      ELSE Returned("curl", Undef, None)
       IN /\ built' = [request |-> request, res |-> None]
          /\ IF request.thrown = Undef /\ ~inp.globals.curl
             THEN /\ fetchCalls' = fetchCalls + 1
                  /\ pc' = "fetching"
                  /\ UNCHANGED <<result, thrown>>
             ELSE /\ result' = outcome.result
                  /\ thrown' = outcome.thrown
                  /\ pc' = "done"
                  /\ UNCHANGED fetchCalls
    /\ UNCHANGED <<call, inp, planVars, renderVars, authVars,
                   helperVars, mainVars, toolVars>>

\* fetch resolves with a response of any status; execute goes on to res.text()
FetchResolves ==
    /\ pc = "fetching"
    /\ \E status \in Statuses :
          built' = [built EXCEPT !.res = [status |-> status, ok |-> OkStatus(status)]]
    /\ pc' = "reading"
    /\ UNCHANGED <<call, inp, result, thrown, fetchCalls,
                   planVars, renderVars, authVars,
                   helperVars, mainVars, toolVars>>

FetchRejects_retries ==
    /\ pc = "fetching"
    /\ fetchCalls = 1
    /\ fetchCalls' = fetchCalls + 1
    /\ UNCHANGED <<call, inp, pc, built, result, thrown,
                   planVars, renderVars, authVars,
                   helperVars, mainVars, toolVars>>

\* fetch rejects; the catch block returns the error
FetchRejects ==
    /\ pc = "fetching"
    /\ result' = catchError("fetch failed").result
    /\ thrown' = catchError("fetch failed").thrown
    /\ pc' = "done"
    /\ UNCHANGED <<call, inp, built, fetchCalls, planVars, renderVars, authVars,
                   helperVars, mainVars, toolVars>>

\* res.text() resolves; execute returns the success result
ReadBody ==
    /\ pc = "reading"
    /\ result' = Returned("success", Undef, built.res).result
    /\ pc' = "done"
    /\ UNCHANGED <<call, inp, built, thrown, fetchCalls,
                   planVars, renderVars, authVars,
                   helperVars, mainVars, toolVars>>

\* res.text() rejects; the catch block returns the error
ReadBodyRejects ==
    /\ pc = "reading"
    /\ result' = catchError("body read failed").result
    /\ thrown' = catchError("body read failed").thrown
    /\ pc' = "done"
    /\ UNCHANGED <<call, inp, built, fetchCalls, planVars, renderVars, authVars,
                   helperVars, mainVars, toolVars>>

\* the caller trips its cancellation token, before the request is sent or
\* while it is in flight; ExecuteInput has no field through which execute
\* could observe it
TripToken ==
    /\ call = "execute"
    /\ pc \in {"start", "fetching"}
    /\ ~inp.cancelled
    /\ inp' = [inp EXCEPT !.cancelled = TRUE]
    /\ UNCHANGED <<call, pc, built, result, thrown, fetchCalls,
                   planVars, renderVars, authVars,
                   helperVars, mainVars, toolVars>>

NextExec ==
    \/ TripToken
    \/ Prepare
    \/ Execute
    \/ FetchResolves
    \/ FetchRejects
    \/ ReadBody
    \/ ReadBodyRejects

SpecExec == InitExec /\ [][NextExec]_vars

\* what buildRequest throws when validation is what fails first
ValidationFailures ==
    {"query: invalid", "header: invalid", "cookie: invalid", "body: invalid",
     "Required", "Missing required fields"}

\* C2: when a parameter value or the request body violates its schema, or
\* a required body field is missing, execute and prepare return a result of
\* type `validation`, never one of type `error`.
C2_ValidationResult ==
    (pc = "done" /\ built.request.thrown \in ValidationFailures) =>
        result.type = "validation"

\* C3: execute and prepare never throw; the first failure met along the
\* pipeline is returned as a result of type `validation` or `error`.
C3_NeverThrows ==
    /\ thrown = Undef
    /\ pc = "done" =>
          /\ result.type \in {"success", "curl", "prepared", "error", "validation"}
          /\ built.request.thrown # Undef =>
                /\ result.type \in {"error", "validation"}
                /\ result.message = built.request.thrown
          /\ ~inp.home => result.message = "Missing HOME env var"
          /\ result.type \in {"success", "curl", "prepared"} =>
                built.request.thrown = Undef

\* a call that meets two failures returned the first as an error result
C3_Witness ==
    /\ pc = "done"
    /\ ~inp.home
    /\ inp.paramErrors # {}
    /\ result.type = "error"
    /\ result.message = "Missing HOME env var"

\* the first value of a list that is neither undefined nor empty
FirstNonEmpty(values) ==
    LET given == { i \in 1..Len(values) : Truthy(values[i]) }
    IN IF given = {} THEN Undef
       ELSE values[CHOOSE i \in given : \A j \in given : i <= j]

\* the scheme the priority order selects; embeddedInSpec says whether the
\* embedded default counts only when the spec declares it
SelectedScheme(input, embeddedInSpec) ==
    LET schemes == input.authSchemes
        alts == input.action.auth.alternatives
        bearer == BearerAlternatives(schemes, alts)
        profileAuth == IF input.profile.exists THEN input.profile.authScheme
                       ELSE Undef
        embeddedAuth == input.embeddedDefaults.auth
    IN FirstNonEmpty(<<
          input.globals.auth,
          IF HasScheme(schemes, profileAuth) THEN profileAuth ELSE Undef,
          IF embeddedInSpec => HasScheme(schemes, embeddedAuth)
          THEN embeddedAuth ELSE Undef,
          IF Len(alts) = 1 /\ Len(alts[1]) = 1 THEN alts[1][1].key ELSE Undef,
          IF Len(schemes) = 1 THEN schemes[1].key ELSE Undef,
          IF Truthy(input.storedToken) /\ bearer # {}
          THEN alts[CHOOSE i \in bearer : \A j \in bearer : i <= j][1].key
          ELSE Undef >>)

AuthResolved == built # None /\ built.request.authScheme # NotReached

\* C6 as stated: the scheme selected is the first available of the CLI
\* --auth value, the profile's scheme if the spec has it, the embedded
\* default scheme, the operation's single scheme, the spec's only scheme
\* and, with a stored token, the first bearer-compatible alternative.
C6_SchemePriority ==
    AuthResolved => built.request.authScheme = SelectedScheme(inp, FALSE)

\* C6 amended: as above, but the embedded default scheme counts only if the
\* spec declares it, and the last rule takes the first alternative that is
\* a single bearer-compatible scheme of the spec.
C6_SchemePriorityInSpec ==
    AuthResolved => built.request.authScheme = SelectedScheme(inp, TRUE)

\* an embedded default the spec does not declare was passed over for the
\* operation's single scheme
C6_Witness ==
    /\ AuthResolved
    /\ ~Truthy(inp.globals.auth)
    /\ inp.embeddedDefaults.auth = "ghost"
    /\ built.request.authScheme = "bearerAuth"

ServerChosen == built # None /\ built.request.url.base # NotReached

\* C7: the server URL is the first non-empty of the CLI --server value, the
\* profile's server, the embedded default server and the URL of the spec's
\* first server.
C7_FirstNonEmptyServer ==
    ServerChosen =>
        built.request.url.base =
            FirstNonEmpty(<<
                inp.globals.server,
                IF inp.profile.exists THEN inp.profile.server ELSE Undef,
                inp.embeddedDefaults.server,
                IF Len(inp.servers) > 0 THEN inp.servers[1].url ELSE Undef >>)

\* the value the last well-formed pair for `name` gives, if any
GivenBy(pairs, name) ==
    LET named == { i \in 1..Len(pairs) : pairs[i].hasEq /\ pairs[i].name = name }
    IN IF named = {} THEN Undef
       ELSE pairs[CHOOSE i \in named : \A j \in named : i >= j].value

\* the value the claimed order gives a variable of the chosen URL
ExpectedValue(input, url, name) ==
    Coalesce(GivenBy(input.globals.serverVar, name),
             Coalesce(GivenBy(input.embeddedDefaults.serverVars, name),
                      specDefault(input.servers, url, name)))

\* C8: each variable of the chosen server URL gets the CLI --server-var
\* value if given, otherwise the embedded default, otherwise the spec's
\* default; resolution fails if and only if some variable gets none.
C8_ServerVariables ==
    (ServerChosen /\ Truthy(built.request.url.base)) =>
        LET url == built.request.url
            names == RangeOf(extractTemplateVars(url.base))
            missing == built.request.thrown = "Missing server variable"
        IN /\ missing <=> \E n \in names : ExpectedValue(inp, url.base, n) = Undef
           /\ ~missing =>
                 \A n \in names : url.vars[n] = ExpectedValue(inp, url.base, n)

\* a variable given by --server-var, by the embedded defaults and by the
\* spec took the --server-var value
C8_Witness ==
    /\ ServerChosen
    /\ built.request.url.base = "https://{region}.example.com"
    /\ GivenBy(inp.globals.serverVar, "region") = "eu"
    /\ GivenBy(inp.embeddedDefaults.serverVars, "region") = "ap"
    /\ specDefault(inp.servers, built.request.url.base, "region") = "us"
    /\ built.request.url.vars["region"] = "eu"

\* C10: a call to execute invokes the fetcher at most once, whatever the
\* response status and whether or not the fetcher fails.
C10_AtMostOneFetch ==
    /\ fetchCalls \in {0, 1}
    /\ pc \in {"fetching", "reading"} => fetchCalls = 1
    /\ (pc = "done" /\ result.type = "success") => fetchCalls = 1

\* the fetcher failed and execute returned the error after its one call
C10_Witness ==
    /\ call = "execute"
    /\ pc = "done"
    /\ result.type = "error"
    /\ result.message = "fetch failed"
    /\ fetchCalls = 1

\* C11: prepare never invokes the fetcher, and execute with the curl flag
\* set returns a `curl` result without invoking the fetcher.
C11_NoRequestWhenPrepared ==
    /\ call = "prepare" => fetchCalls = 0 /\ pc \in {"start", "done"}
    /\ (call = "prepare" /\ pc = "done" /\ built.request.thrown = Undef) =>
          result.type = "prepared"
    /\ (call = "execute" /\ inp.globals.curl) =>
          fetchCalls = 0 /\ pc \in {"start", "done"}
    /\ (call = "execute" /\ inp.globals.curl /\ pc = "done"
          /\ built.request.thrown = Undef) => result.type = "curl"

\* execute with the curl flag built its request and returned it unsent
C11_Witness ==
    /\ call = "execute"
    /\ inp.globals.curl
    /\ pc = "done"
    /\ result.type = "curl"
    /\ fetchCalls = 0

\* C12: if the caller's cancellation token is tripped before the request is
\* sent or while it is in flight, execute returns an `error` result whose
\* message is "cancelled", and never a `success` result.
C12_CancelledIsError ==
    (call = "execute" /\ pc = "done" /\ inp.cancelled /\ fetchCalls = 1) =>
        /\ result.type = "error"
        /\ result.message = "cancelled"

----------------------------------------------------------------------------
(* Parts of the program exercised on their own.                            *)
(*                                                                         *)
(* Path substitution and URL construction (request.ts: pathVars,           *)
(* applyTemplate with encode, new URL).  A server URL is its origin        *)
(* (Undef for a relative URL), the segments of its path and whether it     *)
(* ends with "/"; a request URL is an origin and the segments of its path. *)

MaxPathArgs == 2

PositionalValues == {"42", "a/b", "..", "."}

encodeURIComponent(value) == IF value = "a/b" THEN "a%2Fb" ELSE value

ServerUrls ==
    [origin : {"https://api.example.com"}, path : {<<>>, << <<"v1">> >>},
     slash : BOOLEAN]
    \cup [origin : {Undef}, path : {<< <<"v1">> >>}, slash : {FALSE}]

\* GET /users/{a}/{b}..., for every choice of template variables
PathOperations ==
    { [key |-> <<>>, method |-> "GET", operationId |-> NoOperationId,
       tags |-> <<>>,
       path |-> << <<"users">> >> \o [i \in 1..Len(names) |-> <<names[i]>>]] :
        names \in UNION { [1..n -> ParamParts] : n \in 0..MaxPathArgs } }

\* new URL(relative, base): the base's directory, then the relative path
\* with its dot segments resolved
RECURSIVE resolveSegments(_, _)
resolveSegments(dir, segments) ==
    IF segments = <<>> THEN dir
    ELSE IF Head(segments) = <<".">> THEN resolveSegments(dir, Tail(segments))
    ELSE IF Head(segments) = <<"..">>
    THEN resolveSegments(IF dir = <<>> THEN dir
                         ELSE SubSeq(dir, 1, Len(dir) - 1), Tail(segments))
    ELSE resolveSegments(Append(dir, Head(segments)), Tail(segments))

newURL(segments, base) ==
    [origin |-> base.origin,
     path |-> resolveSegments(IF base.slash \/ base.path = <<>> THEN base.path
                              ELSE SubSeq(base.path, 1, Len(base.path) - 1),
                              segments)]

\* buildRequest, from pathVars to `new URL(relativePath, baseUrl)`
buildUrl(action, serverUrl, positionalValues) ==
    LET set(part) == { i \in 1..Len(action.positionals) :
                         i <= Len(action.rawPathArgs) /\ action.rawPathArgs[i] = part }
        pathVars == [part \in ParamParts |->
                        IF set(part) = {} THEN Undef
                        ELSE positionalValues[CHOOSE i \in set(part) :
                                                 \A j \in set(part) : i >= j]]
        path == [j \in 1..Len(action.path) |->
                    IF IsParamSeg(action.path[j])
                    THEN <<encodeURIComponent(pathVars[action.path[j][1]])>>
                    ELSE action.path[j]]
        baseUrl == [serverUrl EXCEPT !.slash = TRUE]
        url == newURL(path, baseUrl)
        out == [thrown |-> Undef, positionalValues |-> positionalValues,
                pathVars |-> pathVars, origin |-> Undef, path |-> <<>>]
    IN IF \E j \in 1..Len(action.path) :
             IsParamSeg(action.path[j]) /\ pathVars[action.path[j][1]] = Undef
       THEN [out EXCEPT !.thrown = "Missing template variable"]
       ELSE IF serverUrl.origin = Undef THEN [out EXCEPT !.thrown = "Invalid URL"]
       ELSE [out EXCEPT !.origin = url.origin, !.path = url.path]

(* Generated flags of one action (deriveParamSpecs, deriveFlags,           *)
(* addGeneratedCommands, generateBodyFlags, parseDotNotationFlags).  A     *)
(* property name and a flag's long name are the sequence of their          *)
(* "."-separated parts; a JSON object is [t |-> "object", fields |-> f], a *)
(* JSON scalar [t |-> its type, v |-> its text].                           *)

MaxParams == 2
MaxProperties == 2

ParamCandidates ==
    { [in |-> "query", name |-> "name"], [in |-> "query", name |-> "userId"],
      [in |-> "query", name |-> "user_id"], [in |-> "header", name |-> "userId"],
      [in |-> "query", name |-> "curl"], [in |-> "path", name |-> "name"] }

ParameterSets ==
    { ps \in SUBSET ParamCandidates : Cardinality(ps) <= MaxParams }

\* kebabCase of a parameter name
kebabParamName(name) ==
    IF name \in {"userId", "user_id"} THEN "user-id" ELSE name

\* localeCompare on `in`, then on `name`
ParamLess(a, b) ==
    LET inRank(x) == CASE x = "header" -> 1 [] x = "path" -> 2 [] x = "query" -> 3
        nameRank(x) == CASE x = "curl" -> 1 [] x = "name" -> 2
                         [] x = "user_id" -> 3 [] x = "userId" -> 4
    IN IF a.in # b.in THEN inRank(a.in) < inRank(b.in)
       ELSE nameRank(a.name) < nameRank(b.name)

RECURSIVE deriveParamSpecs(_)
deriveParamSpecs(parameters) ==
    IF parameters = {} THEN <<>>
    ELSE LET p == CHOOSE x \in parameters :
                      \A y \in parameters \ {x} : ParamLess(x, y)
         IN <<[kind |-> IF p.in = "path" THEN "positional" ELSE "flag",
               in |-> p.in, name |-> p.name,
               flag |-> <<kebabParamName(p.name)>>]>>
            \o deriveParamSpecs(parameters \ {p})

deriveFlags(params) == SelectSeq(params, LAMBDA p : p.kind = "flag")

Leaf(t) == [type |-> t, properties |-> <<>>, required |-> {}]

PropertyCandidates ==
    { [name |-> <<"name">>, schema |-> Leaf(t)] :
        t \in {"string", "integer", "boolean"} }
    \cup { [name |-> <<"curl">>, schema |-> Leaf("string")],
           [name |-> <<"address", "city">>, schema |-> Leaf("string")],
           [name |-> <<"tags">>, schema |-> Leaf("array")] }
    \cup { [name |-> <<"address">>,
            schema |-> [type |-> "object", required |-> {},
                        properties |-> <<[name |-> <<"city">>, schema |-> Leaf(t)]>>]] :
             t \in {"string", "boolean"} }

\* the request body's schema, or None for an action without a request body
BodySchemas ==
    {None} \cup
    { schema \in [type : {"object"}, required : {{}, {<<"name">>}},
                  properties : UNION { [1..n -> PropertyCandidates] :
                                         n \in 0..MaxProperties }] :
        /\ \A i, j \in DOMAIN schema.properties :
              i # j => schema.properties[i].name # schema.properties[j].name
        /\ schema.required \subseteq
              { schema.properties[i].name : i \in DOMAIN schema.properties } }

\* path.join(".")
RECURSIVE joinDots(_)
joinDots(path) ==
    IF path = <<>> THEN <<>> ELSE Head(path) \o joinDots(Tail(path))

RECURSIVE collectFlags(_, _, _, _)
collectFlags(properties, pathPrefix, requiredAtRoot, reservedFlags) ==
    IF properties = <<>> THEN <<>>
    ELSE LET name == Head(properties).name
             propSchema == Head(properties).schema
             path == Append(pathPrefix, name)
             flagName == joinDots(path)
             here ==
                 IF flagName \in reservedFlags THEN <<>>
                 ELSE IF propSchema.type = "object" /\ propSchema.properties # <<>>
                 THEN collectFlags(propSchema.properties, path,
                                   propSchema.required, reservedFlags)
                 ELSE IF propSchema.type \in {"string", "number", "integer", "boolean"}
                 THEN <<[flag |-> flagName, path |-> path, type |-> propSchema.type,
                         required |-> IF pathPrefix = <<>>
                                     THEN name \in requiredAtRoot ELSE FALSE]>>
                 ELSE <<>>
         IN here \o collectFlags(Tail(properties), pathPrefix, requiredAtRoot,
                                 reservedFlags)

generateBodyFlags(schema, reservedFlags) ==
    IF schema = None \/ schema.type # "object" \/ schema.properties = <<>> THEN <<>>
    ELSE collectFlags(schema.properties, <<>>, schema.required, reservedFlags)

\* addGeneratedCommands for one action: its parameter flags, the built-in
\* --curl unless a parameter claims it, and its body flags
generatedFlags(parameters, requestBodySchema) ==
    LET flags == deriveFlags(deriveParamSpecs(parameters))
        operationFlagSet == { flags[i].flag : i \in DOMAIN flags }
        reservedFlags == operationFlagSet \cup {<<"curl">>}
    IN [flags |-> flags,
        builtin |-> IF <<"curl">> \notin operationFlagSet THEN << <<"curl">> >>
                    ELSE <<>>,
        bodyFlagDefs |-> IF requestBodySchema = None THEN <<>>
                         ELSE generateBodyFlags(requestBodySchema, reservedFlags)]

\* the JSON values that conform to a schema, required fields present
RECURSIVE ValuesOf(_)
ValuesOf(schema) ==
    IF schema.type = "object"
    THEN LET props == schema.properties
             names == { props[i].name : i \in DOMAIN props }
             schemaOf(n) == props[CHOOSE i \in DOMAIN props : props[i].name = n].schema
             all == UNION { ValuesOf(props[i].schema) : i \in DOMAIN props }
         IN { [t |-> "object", fields |-> f] :
                f \in { g \in UNION { [D -> all] :
                                        D \in { E \in SUBSET names :
                                                  schema.required \subseteq E } } :
                          \A n \in DOMAIN g : g[n] \in ValuesOf(schemaOf(n)) } }
    ELSE { [t |-> schema.type, v |-> x] :
             x \in CASE schema.type = "string" -> {"Ada", "NYC"}
                     [] schema.type = "boolean" -> {"true", "false"}
                     [] schema.type = "integer" -> {"30"}
                     [] OTHER -> {"[]"} }

RECURSIVE valueAt(_, _)
valueAt(value, path) ==
    IF path = <<>> THEN value
    ELSE IF value.t = "object" /\ Head(path) \in DOMAIN value.fields
    THEN valueAt(value.fields[Head(path)], Tail(path))
    ELSE None

\* command.opts() after every leaf of `value` was given through its flag:
\* a later option overwrites an earlier one of the same name, and a boolean
\* option is given by its presence, so `false` is said by leaving it out
flagValuesOf(value, flagDefs) ==
    LET given == { i \in DOMAIN flagDefs :
                     /\ valueAt(value, flagDefs[i].path) # None
                     /\ valueAt(value, flagDefs[i].path).t # "object"
                     /\ valueAt(value, flagDefs[i].path).v # "false" }
        keys == { joinDots(flagDefs[i].path) : i \in given }
        last(k) == CHOOSE i \in given :
                      /\ joinDots(flagDefs[i].path) = k
                      /\ \A j \in given : joinDots(flagDefs[j].path) = k => j <= i
    IN [k \in keys |-> valueAt(value, flagDefs[last(k)].path).v]

\* setNestedValue: the coercion of the value by the flag's type
coerceLeaf(type, value) ==
    CASE type = "boolean" -> [t |-> "boolean", v |-> "true"]
      [] type \in {"integer", "number"} ->
            [t |-> type, v |-> IF value = "30" THEN "30" ELSE "NaN"]
      [] OTHER -> [t |-> type, v |-> value]

setNestedValue_flat(obj, path, value, type) ==
    [obj EXCEPT !.fields = [k \in DOMAIN obj.fields \cup {joinDots(path)} |->
                               IF k = joinDots(path) THEN coerceLeaf(type, value)
                               ELSE obj.fields[k]]]

RECURSIVE setNestedValue(_, _, _, _)
setNestedValue(obj, path, value, type) ==
    LET key == Head(path)
        current == IF key \in DOMAIN obj.fields /\ obj.fields[key].t = "object"
                   THEN obj.fields[key]
                   ELSE [t |-> "object", fields |-> <<>>]
        new == IF Len(path) = 1 THEN coerceLeaf(type, value)
               ELSE setNestedValue(current, Tail(path), value, type)
    IN [obj EXCEPT !.fields = [k \in DOMAIN obj.fields \cup {key} |->
                                  IF k = key THEN new ELSE obj.fields[k]]]

RECURSIVE parseDotNotationFlags(_, _)
parseDotNotationFlags(flagValues, flagDefs) ==
    IF flagDefs = <<>> THEN [t |-> "object", fields |-> <<>>]
    ELSE LET def == flagDefs[Len(flagDefs)]
             parsed == parseDotNotationFlags(flagValues,
                                             SubSeq(flagDefs, 1, Len(flagDefs) - 1))
             dotKey == joinDots(def.path)
         IN IF dotKey \notin DOMAIN flagValues THEN parsed
            ELSE setNestedValue(parsed, def.path, flagValues[dotKey], def.type)

(* The curl rendering of the Authorization header (applyAuth, buildCurl).  *)
(* A header value is the sequence of its characters; "..." and "***" are   *)
(* the literal runs maskToken writes.                                      *)

MaxTokenLen == 8

Alphabet == <<"a", "b", "c", "d", "e", "f", "g", "h", "i", "j", "k", "l">>

\* tokens of every length, and the same with a space inside
Tokens ==
    { SubSeq(Alphabet, 1, n) : n \in 1..MaxTokenLen }
    \cup { [SubSeq(Alphabet, 1, n) EXCEPT ![2] = " "] : n \in 3..MaxTokenLen }

Credentials ==
    [kind : {"bearer", "basic", "api-key"}, value : Tokens,
     name : {"Authorization"}, in : {"header"}]

\* applyAuth: the value of the header it sets
authorizationHeader(credential) ==
    CASE credential.kind = "bearer" ->
            <<"B", "e", "a", "r", "e", "r", " ">> \o credential.value
      [] credential.kind = "basic" ->
            <<"B", "a", "s", "i", "c", " ">> \o credential.value
      [] OTHER -> credential.value

\* String.prototype.split on a one-character separator
RECURSIVE split(_, _)
split(value, separator) ==
    IF value = <<>> THEN << <<>> >>
    ELSE LET parts == split(SubSeq(value, 1, Len(value) - 1), separator)
             char == value[Len(value)]
         IN IF char = separator THEN Append(parts, <<>>)
            ELSE [parts EXCEPT ![Len(parts)] = Append(@, char)]

maskToken_showsAll(token) == token

maskToken(token) ==
    IF Len(token) <= 6 THEN <<"***">>
    ELSE SubSeq(token, 1, 3) \o <<"...">> \o SubSeq(token, Len(token) - 2, Len(token))

maskAuthHeader(value) ==
    LET parts == split(value, " ")
    IN IF Len(parts) = 2 THEN parts[1] \o <<" ">> \o maskToken(parts[2])
       ELSE maskToken(value)

(* Repeatable array flags (addGeneratedCommands' collector,               *)
(* coerceArrayInput, the query loop of buildRequest).  What is typed after *)
(* the flag is a sequence of tokens: item texts, ",", "[", "]", the quote  *)
(* and the space.                                                          *)

MaxOccurrences == 2

Quote == "\""

ItemTexts == {"a", "7"}

\* one occurrence of the flag: the items it gives and the form they take
Occurrences ==
    [form : {"single"}, items : [1..1 -> ItemTexts]]
    \cup [form : {"comma", "spaced", "json"},
          items : [1..1 -> ItemTexts] \cup [1..2 -> ItemTexts]]

\* the text typed for an occurrence
RECURSIVE joinItems(_, _, _)
joinItems(items, separator, quoted) ==
    IF items = <<>> THEN <<>>
    ELSE (IF quoted /\ Head(items) # "7"
          THEN <<Quote, Head(items), Quote>> ELSE <<Head(items)>>)
         \o (IF Len(items) = 1 THEN <<>> ELSE separator)
         \o joinItems(Tail(items), separator, quoted)

rawOf(occurrence) ==
    CASE occurrence.form = "json" ->
            <<"[">> \o joinItems(occurrence.items, <<",">>, TRUE) \o <<"]">>
      [] occurrence.form = "spaced" ->
            <<" ">> \o joinItems(occurrence.items, <<",", " ">>, FALSE)
      [] OTHER -> joinItems(occurrence.items, <<",">>, FALSE)

\* String.prototype.trim
RECURSIVE trim(_)
trim(value) ==
    IF value = <<>> THEN value
    ELSE IF Head(value) = " " THEN trim(Tail(value))
    ELSE IF value[Len(value)] = " " THEN trim(SubSeq(value, 1, Len(value) - 1))
    ELSE value

Thrown == [thrown |-> TRUE, items |-> <<>>]

\* coerceValue: whether the item is accepted (else InvalidArgumentError);
\* an accepted string is itself and an accepted integer prints as typed
coerceValue(raw, type) ==
    IF type = "string" THEN TRUE ELSE raw = <<"7">>

\* JSON.parse of an array of strings and numbers, each as String(v)
jsonArray(trimmed) ==
    IF trimmed[Len(trimmed)] # "]" THEN Thrown
    ELSE LET inner == SubSeq(trimmed, 2, Len(trimmed) - 1)
             parts == IF trim(inner) = <<>> THEN <<>> ELSE split(inner, ",")
             isString(t) == Len(t) = 3 /\ t[1] = Quote /\ t[3] = Quote
             isNumber(t) == t = <<"7">>
         IN IF \E i \in DOMAIN parts :
                  ~isString(trim(parts[i])) /\ ~isNumber(trim(parts[i]))
            THEN Thrown
            ELSE [thrown |-> FALSE,
                  items |-> [i \in DOMAIN parts |->
                                IF isString(trim(parts[i])) THEN <<trim(parts[i])[2]>>
                                ELSE trim(parts[i])]]

coerceArrayInput(raw, itemType) ==
    LET trimmed == trim(raw)
        parts == split(trimmed, ",")
        kept == SelectSeq([i \in DOMAIN parts |-> trim(parts[i])],
                          LAMBDA part : part # <<>>)
        strings == IF trimmed = <<>> THEN [thrown |-> FALSE, items |-> <<>>]
                   ELSE IF Head(trimmed) = "[" THEN jsonArray(trimmed)
                   ELSE [thrown |-> FALSE, items |-> kept]
    IN IF strings.thrown THEN Thrown
       ELSE IF \E i \in DOMAIN strings.items : ~coerceValue(strings.items[i], itemType)
       THEN Thrown
       ELSE strings

collectOption_newestFirst(prev, items) == items \o prev

\* the option's collector: `next = [...prev, ...items]`
collectOption(prev, items) == prev \o items

\* the value of the option after all occurrences
RECURSIVE collectOccurrences(_, _)
collectOccurrences(occurrences, itemType) ==
    IF occurrences = <<>> THEN [thrown |-> FALSE, items |-> <<>>]
    ELSE LET prev == collectOccurrences(SubSeq(occurrences, 1, Len(occurrences) - 1),
                                        itemType)
             next == coerceArrayInput(rawOf(occurrences[Len(occurrences)]), itemType)
         IN IF prev.thrown \/ next.thrown THEN Thrown
            ELSE [thrown |-> FALSE, items |-> collectOption(prev.items, next.items)]

(* Canonical serialization and the fingerprint (stableStringify, loadSpec, *)
(* getSpecId).  A dereferenced document is a heap of objects and arrays    *)
(* whose members are scalars or references to heap nodes, so that it can   *)
(* hold cycles; Object.keys gives an object's keys in insertion order,     *)
(* which is a..b, or b..a for the nodes in `reversed`.                     *)

Nodes == {1, 2}

KeyOrder == <<"a", "b">>

Refs == [scalar : {"x"}] \cup [node : Nodes]

NodeValues ==
    [kind : {"object"}, items : {<<>>},
     fields : UNION { [D -> Refs] : D \in SUBSET {"a", "b"} }]
    \cup [kind : {"array"}, fields : {<<>>},
          items : {<<>>} \cup [1..1 -> Refs]]

\* the documents, rooted at node 1, with and without info.title
Documents ==
    [heap : [Nodes -> NodeValues], title : {"", "Pet Store"}]

\* Object.keys(obj)
objectKeys(doc, reversed, n) ==
    LET keys == SelectSeq(KeyOrder, LAMBDA k : k \in DOMAIN doc.heap[n].fields)
    IN IF n \in reversed THEN [i \in DOMAIN keys |-> keys[Len(keys) + 1 - i]]
       ELSE keys

sortKeys_insertionOrder(keys) == keys

\* Array.prototype.sort on the keys
sortKeys(keys) ==
    SelectSeq(KeyOrder, LAMBDA k : \E i \in DOMAIN keys : keys[i] = k)

Scalar(text) == [kind |-> "scalar", text |-> text, members |-> <<>>]

circularSentinel_null == Scalar("null")

circularSentinel ==
    [kind |-> "object", text |-> "",
     members |-> <<[key |-> "__specli_circular", value |-> Scalar("true")]>>]

\* sort(value, visiting): the value rebuilt with sorted keys
RECURSIVE sort(_, _, _, _)
sort(doc, reversed, ref, visiting) ==
    IF "scalar" \in DOMAIN ref THEN Scalar(ref.scalar)
    ELSE IF ref.node \in visiting THEN circularSentinel
    ELSE LET value == doc.heap[ref.node]
             keys == sortKeys(objectKeys(doc, reversed, ref.node))
         IN IF value.kind = "array"
            THEN [kind |-> "array", text |-> "",
                  members |-> [i \in DOMAIN value.items |->
                                  [key |-> "", value |->
                                      sort(doc, reversed, value.items[i],
                                           visiting \cup {ref.node})]]]
            ELSE [kind |-> "object", text |-> "",
                  members |-> [i \in DOMAIN keys |->
                                  [key |-> keys[i], value |->
                                      sort(doc, reversed, value.fields[keys[i]],
                                           visiting \cup {ref.node})]]]

\* JSON.stringify: the tokens of the text, members in the value's own order
RECURSIVE stringify(_)
RECURSIVE stringifyMembers(_, _)
stringify(value) ==
    CASE value.kind = "scalar" -> <<value.text>>
      [] value.kind = "array" -> <<"[">> \o stringifyMembers(value.members, FALSE) \o <<"]">>
      [] OTHER -> <<"{">> \o stringifyMembers(value.members, TRUE) \o <<"}">>

stringifyMembers(members, keyed) ==
    IF members = <<>> THEN <<>>
    ELSE (IF keyed THEN <<Head(members).key, ":">> ELSE <<>>)
         \o stringify(Head(members).value)
         \o (IF Len(members) = 1 THEN <<>> ELSE <<",">>)
         \o stringifyMembers(Tail(members), keyed)

stableStringify(doc, reversed) ==
    stringify(sort(doc, reversed, [node |-> 1], {}))

\* loadSpec: the fingerprint and the id; sha256Hex is taken to be free of
\* collisions, so a digest stands for the text it was computed from, and
\* the id is the kebab-cased title or the first 12 digits of the digest
loadSpec(doc, reversed) ==
    LET fingerprint == [sha256Hex |-> stableStringify(doc, reversed)]
    IN [fingerprint |-> fingerprint,
        id |-> IF doc.title = "Pet Store"
               THEN [from |-> "title", text |-> <<"pet", "store">>, of |-> <<>>]
               ELSE [from |-> "fingerprint", text |-> <<>>, of |-> fingerprint.sha256Hex]]

(* The `__schema` output (model/schema.ts).  The parts that the output    *)
(* only passes on are named by what they were built from.                  *)

buildSchemaOutput(loaded, operations, plannedOps, servers, authSchemes, commands, commandsIndex, capabilities) ==
    [schemaVersion |-> 1,
     openapi |-> [version |-> loaded.doc.openapi, title |-> loaded.doc.title,
                  infoVersion |-> loaded.doc.version],
     spec |-> [id |-> loaded.id, fingerprint |-> loaded.fingerprint,
               source |-> loaded.source],
     capabilities |-> capabilities,
     servers |-> servers,
     authSchemes |-> authSchemes,
     operations |-> operations,
     planned |-> plannedOps,
     commands |-> commands,
     commandsIndex |-> commandsIndex]

toMinimalSchemaOutput_keepsServers(output) ==
    [f \in {"schemaVersion", "openapi", "spec", "capabilities", "commands",
            "servers", "authSchemes"} |-> output[f]]

toMinimalSchemaOutput(output) ==
    [schemaVersion |-> output.schemaVersion,
     openapi |-> output.openapi,
     spec |-> output.spec,
     capabilities |-> output.capabilities,
     commands |-> output.commands]

(* The command model built from a list of planned operations given in any *)
(* order (buildCommandModel called on its own, as in its tests).           *)

MaxPlanned == 3

PlannedOperations ==
    { [key |-> operationKey(o.method, o.path), method |-> o.method,
       path |-> o.path, resource |-> o.resource, action |-> o.action,
       pathArgs |-> <<>>, rawPathArgs |-> <<>>] :
        o \in [method : Methods, resource : {<<"users">>, <<"teams">>},
               action : {<<"get">>, <<"list">>},
               path : {<< <<"users">> >>, << <<"users", "get">> >>}] }

(* The whole curl rendering of a request that carries a credential        *)
(* (applyAuth, buildCurl).  A part of the command is the sequence of its   *)
(* characters, with header names, the method and the URL up to its query   *)
(* as single symbols.                                                      *)

\* where applyAuth puts a credential of each kind
Placements ==
    [kind : {"bearer", "basic"}, name : {"Authorization"}, in : {"header"}]
    \cup [kind : {"api-key"}, name : {"Authorization", "X-API-Key"},
          in : {"header", "query", "cookie"}]

\* applyAuth: the headers and the query parameters of the request
applyAuthTo(credential) ==
    LET none == [headers |-> <<>>, searchParams |-> <<>>]
        header(name, value) == [none EXCEPT !.headers = <<[name |-> name, value |-> value]>>]
    IN CASE credential.kind \in {"bearer", "basic"} ->
               header("Authorization", authorizationHeader(credential))
         [] credential.in = "header" -> header(credential.name, credential.value)
         [] credential.in = "query" ->
               [none EXCEPT !.searchParams =
                   <<[name |-> credential.name, value |-> credential.value]>>]
         [] credential.in = "cookie" ->
               header("Cookie", <<credential.name, "=">> \o credential.value)

\* URLSearchParams' serialization of a value: a space becomes "+"
encodeQueryValue(value) ==
    [i \in DOMAIN value |-> IF value[i] = " " THEN "+" ELSE value[i]]

\* req.url
urlOf(req) ==
    <<"https://api.example.com/users">>
    \o (IF req.searchParams = <<>> THEN <<>>
        ELSE <<"?", req.searchParams[1].name, "=">>
             \o encodeQueryValue(req.searchParams[1].value))

shellQuote(value) == <<"'">> \o value \o <<"'">>

\* the parts buildCurl joins with spaces
buildCurl(req) ==
    <<<<"curl">>, <<"-sS">>, <<"-X">>, <<"GET">>>>
    \o (IF req.headers = <<>> THEN <<>>
        ELSE LET k == req.headers[1].name
                 v == req.headers[1].value
                 value == IF k = "Authorization" THEN maskAuthHeader(v) ELSE v
             IN << <<"-H">>, shellQuote(<<k, ":", " ">> \o value) >>)
    \o << shellQuote(urlOf(req)) >>

InitHelpers ==
    /\ \/ /\ helper = "path"
          /\ arg \in [op : PathOperations, server : ServerUrls]
       \/ /\ helper = "curl"
          /\ arg \in Credentials
       \/ /\ helper = "array"
          /\ arg \in [name : {"tags"}, itemType : {"string", "integer"},
                      occurrences : UNION { [1..n -> Occurrences] :
                                              n \in 1..MaxOccurrences }]
       \/ /\ helper = "stringify"
          /\ arg \in [doc : Documents, reversed : SUBSET Nodes,
                      otherReversed : SUBSET Nodes]
       \/ /\ helper = "schema"
          /\ arg \in [loaded : [doc : [openapi : {"3.0.3", "3.1.0"},
                                      title : {Undef, "Pet Store"},
                                      version : {"1.0.0"}],
                               id : {"pet-store", "0a1b2c3d4e5f"},
                               fingerprint : {"0a1b2c3d4e5f"},
                               source : {"file", "url", "embedded"}],
                      operations : {"no operations", "2 operations"},
                      planned : {Undef, "2 planned"},
                      servers : {"no servers", "1 server"},
                      authSchemes : {"no schemes", "1 scheme"},
                      commands : {Undef, "2 commands"},
                      commandsIndex : {Undef, "2 ids"},
                      capabilities : {"counts"}]
       \/ /\ helper = "model"
          /\ arg \in UNION { [1..n -> PlannedOperations] : n \in 1..MaxPlanned }
       \/ /\ helper = "request"
          /\ arg \in { c \in [kind : {"bearer", "basic", "api-key"}, value : Tokens,
                              name : {"Authorization", "X-API-Key"},
                              in : {"header", "query", "cookie"}] :
                        [kind |-> c.kind, name |-> c.name, in |-> c.in] \in Placements }
       \/ /\ helper = "flags"
          /\ arg \in UNION { [parameters : ParameterSets,
                              requestBodySchema : {schema},
                              value : IF schema = None THEN {None}
                                      ELSE ValuesOf(schema)] :
                               schema \in BodySchemas }
    /\ ret = None
    /\ IdlePlan /\ IdleExec /\ IdleRender /\ IdleAuth /\ IdleCli /\ IdleTools

\* planOperation and buildCommandModel for the one operation
DeriveAction ==
    /\ helper = "path" /\ ret = None
    /\ ret' = [action |-> CommandActionOf(planOperation(arg.op)), url |-> None]
    /\ UNCHANGED <<helper, arg, planVars, execVars, renderVars, authVars, mainVars, toolVars>>

\* buildRequest for that action, one value given for each positional
BuildUrl ==
    /\ helper = "path" /\ ret # None /\ ret.url = None
    /\ \E values \in [1..Len(ret.action.positionals) -> PositionalValues] :
          ret' = [ret EXCEPT !.url = buildUrl(ret.action, arg.server, values)]
    /\ UNCHANGED <<helper, arg, planVars, execVars, renderVars, authVars, mainVars, toolVars>>

\* addGeneratedCommands registers the flags of the action
GenerateFlags ==
    /\ helper = "flags" /\ ret = None
    /\ ret' = [generated |-> generatedFlags(arg.parameters, arg.requestBodySchema),
               body |-> None]
    /\ UNCHANGED <<helper, arg, planVars, execVars, renderVars, authVars, mainVars, toolVars>>

\* the body is given through the body flags and parsed back
ParseBodyFlags ==
    /\ helper = "flags" /\ ret # None /\ ret.body = None
    /\ arg.requestBodySchema # None
    /\ ret' = [ret EXCEPT !.body =
                  parseDotNotationFlags(
                      flagValuesOf(arg.value, ret.generated.bodyFlagDefs),
                      ret.generated.bodyFlagDefs)]
    /\ UNCHANGED <<helper, arg, planVars, execVars, renderVars, authVars, mainVars, toolVars>>

\* buildRequest: the request carries the header applyAuth set, and
\* buildCurl renders it masked
BuildCurl ==
    /\ helper = "curl" /\ ret = None
    /\ ret' = [header |-> authorizationHeader(arg),
               curl |-> maskAuthHeader(authorizationHeader(arg))]
    /\ UNCHANGED <<helper, arg, planVars, execVars, renderVars, authVars, mainVars, toolVars>>

\* the command line is parsed: every occurrence goes through the collector
CollectArrayFlag ==
    /\ helper = "array" /\ ret = None
    /\ ret' = [flagValue |-> collectOccurrences(arg.occurrences, arg.itemType),
               query |-> Undef, searchParams |-> <<>>]
    /\ UNCHANGED <<helper, arg, planVars, execVars, renderVars, authVars, mainVars, toolVars>>

\* buildRequest appends the items of the array value to the query
AppendQuery ==
    /\ helper = "array" /\ ret # None /\ ret.query = Undef
    /\ ~ret.flagValue.thrown
    /\ ret' = [ret EXCEPT !.query = "built", !.searchParams =
                  [i \in DOMAIN ret.flagValue.items |->
                      [key |-> arg.name, value |-> ret.flagValue.items[i]]]]
    /\ UNCHANGED <<helper, arg, planVars, execVars, renderVars, authVars, mainVars, toolVars>>

\* the same document is loaded twice, its keys inserted in two orders
LoadSpec ==
    /\ helper = "stringify" /\ ret = None
    /\ ret' = [loaded |-> loadSpec(arg.doc, arg.reversed),
               other |-> loadSpec(arg.doc, arg.otherReversed)]
    /\ UNCHANGED <<helper, arg, planVars, execVars, renderVars, authVars, mainVars, toolVars>>

\* `__schema`: the full output is built, and the minimal one from it
BuildSchema ==
    /\ helper = "schema" /\ ret = None
    /\ LET full == buildSchemaOutput(arg.loaded, arg.operations, arg.planned,
                                     arg.servers, arg.authSchemes, arg.commands,
                                     arg.commandsIndex, arg.capabilities)
       IN ret' = [full |-> full, minimal |-> toMinimalSchemaOutput(full)]
    /\ UNCHANGED <<helper, arg, planVars, execVars, renderVars, authVars, mainVars, toolVars>>

\* buildCommandModel(planned, options)
BuildModelOf ==
    /\ helper = "model" /\ ret = None
    /\ ret' = [resources |-> buildCommandModel(arg)]
    /\ UNCHANGED <<helper, arg, planVars, execVars, renderVars, authVars, mainVars, toolVars>>

\* buildRequest from applyAuth on: the credential is put on the request
\* and the request is rendered as a curl command
BuildRequestCurl ==
    /\ helper = "request" /\ ret = None
    /\ ret' = [request |-> applyAuthTo(arg), curl |-> buildCurl(applyAuthTo(arg))]
    /\ UNCHANGED <<helper, arg, planVars, execVars, renderVars, authVars, mainVars, toolVars>>

NextHelpers ==
    \/ BuildCurl
    \/ BuildRequestCurl
    \/ BuildModelOf
    \/ BuildSchema
    \/ LoadSpec
    \/ CollectArrayFlag
    \/ AppendQuery
    \/ DeriveAction
    \/ BuildUrl
    \/ GenerateFlags
    \/ ParseBodyFlags

SpecHelpers == InitHelpers /\ [][NextHelpers]_vars

\* C13: the positionals list has one entry per path template variable, in
\* template order, so that there are as many positionals as raw path args
\* and the i-th positional value is substituted for the i-th variable.
C13_PositionalsMatchTemplate ==
    (helper = "path" /\ ret # None) =>
        LET action == ret.action
        IN /\ Len(action.positionals) = Len(action.rawPathArgs)
           /\ \A i \in 1..Len(action.rawPathArgs) :
                 /\ action.positionals[i].name = kebabPathArg(action.rawPathArgs[i])
                 /\ ret.url # None =>
                       ret.url.pathVars[action.rawPathArgs[i]] =
                           ret.url.positionalValues[i]

\* C17: the URL of the built request is absolute and keeps the server URL's
\* base path as the prefix of its path, with every positional value
\* URL-encoded at the site of its template variable.
C17_UrlKeepsBaseAndValues ==
    (helper = "path" /\ ret # None /\ ret.url # None /\ ret.url.thrown = Undef) =>
        LET base == arg.server.path
            path == ret.action.path
        IN /\ ret.url.origin # Undef
           /\ Len(ret.url.path) = Len(base) + Len(path)
           /\ SubSeq(ret.url.path, 1, Len(base)) = base
           /\ \A j \in 1..Len(path) :
                 ret.url.path[Len(base) + j] =
                     IF IsParamSeg(path[j])
                     THEN <<encodeURIComponent(ret.url.pathVars[path[j][1]])>>
                     ELSE path[j]

LongNames(generated) ==
    [i \in DOMAIN generated.flags |-> generated.flags[i].flag]
    \o generated.builtin
    \o [i \in DOMAIN generated.bodyFlagDefs |-> generated.bodyFlagDefs[i].flag]

\* C14: within one action no two generated flags have the same long name,
\* over its parameter flags, its body flags and the built-in --curl.
C14_UniqueLongNames ==
    (helper = "flags" /\ ret # None) =>
        LET names == LongNames(ret.generated)
        IN \A i, j \in DOMAIN names : i # j => names[i] # names[j]

RECURSIVE ScalarLeaves(_)
ScalarLeaves(schema) ==
    IF schema.type = "object"
    THEN \A i \in DOMAIN schema.properties : ScalarLeaves(schema.properties[i].schema)
    ELSE schema.type \in {"string", "number", "integer", "boolean"}

RECURSIVE LeafCount(_)
LeafCount(schema) ==
    IF schema.type # "object" THEN 1
    ELSE IF schema.properties = <<>> THEN 0
    ELSE LeafCount(Head(schema.properties).schema)
         + LeafCount([schema EXCEPT !.properties = Tail(schema.properties)])

\* no boolean leaf is false and no nested object is empty
RECURSIVE Expressible(_)
Expressible(value) ==
    IF value.t = "object"
    THEN \A n \in DOMAIN value.fields :
            /\ Expressible(value.fields[n])
            /\ value.fields[n].t = "object" => value.fields[n].fields # <<>>
    ELSE value.v # "false"

RoundTripCase ==
    /\ helper = "flags" /\ ret # None /\ ret.body # None
    /\ ScalarLeaves(arg.requestBodySchema)

\* C16 (as stated): for an object schema with only scalar leaves and a
\* conforming value, giving every leaf through its body flag and parsing
\* the flags back yields the original value.
C16_RoundTrip == RoundTripCase => ret.body = arg.value

\* C16 (amended): the same, for schemas none of whose body flags is skipped
\* as reserved and whose flags have distinct names, and for values with no
\* false boolean leaf and no empty nested object.
C16_RoundTripExpressible ==
    ( /\ RoundTripCase
      /\ Len(ret.generated.bodyFlagDefs) = LeafCount(arg.requestBodySchema)
      /\ \A i, j \in DOMAIN ret.generated.bodyFlagDefs :
            i # j => ret.generated.bodyFlagDefs[i].flag # ret.generated.bodyFlagDefs[j].flag
      /\ Expressible(arg.value) )
    => ret.body = arg.value

C16_Witness ==
    /\ RoundTripCase
    /\ Len(ret.generated.bodyFlagDefs) = 2
    /\ \E n \in DOMAIN arg.value.fields :
          /\ arg.value.fields[n].t = "object"
          /\ arg.value.fields[n].fields # <<>>
    /\ Expressible(arg.value)
    /\ ret.body = arg.value

SchemePrefix ==
    SubSeq(authorizationHeader(arg), 1,
           Len(authorizationHeader(arg)) - Len(arg.value))

FirstAndLast3 ==
    SubSeq(arg.value, 1, IF Len(arg.value) < 3 THEN Len(arg.value) ELSE 3)
    \o <<"...">>
    \o SubSeq(arg.value, IF Len(arg.value) < 3 THEN 1 ELSE Len(arg.value) - 2,
              Len(arg.value))

\* C15 (as stated): for every request with an Authorization header the curl
\* rendering shows the scheme prefix and only the first 3 and last 3
\* characters of the token, and the request carries the full token.
C15_CurlMasksToken ==
    (helper = "curl" /\ ret # None) =>
        /\ ret.header = SchemePrefix \o arg.value
        /\ ret.curl = SchemePrefix \o FirstAndLast3

\* C15 (amended): the same for a token without a space that is longer than
\* 6 characters; a token without a space of at most 6 characters is shown
\* as `***` after the scheme prefix.
C15_CurlMasksLongToken ==
    (helper = "curl" /\ ret # None /\ \A i \in DOMAIN arg.value : arg.value[i] # " ") =>
        /\ ret.header = SchemePrefix \o arg.value
        /\ ret.curl = SchemePrefix \o (IF Len(arg.value) <= 6 THEN <<"***">>
                                       ELSE FirstAndLast3)

C15_Witness ==
    /\ helper = "curl" /\ ret # None
    /\ arg.kind = "bearer" /\ Len(arg.value) = 8
    /\ \A i \in DOMAIN arg.value : arg.value[i] # " "
    /\ ret.curl = <<"B", "e", "a", "r", "e", "r", " ", "a", "b", "c", "...", "f", "g", "h">>
    /\ ret.header = <<"B", "e", "a", "r", "e", "r", " ">> \o arg.value

\* the items given on the command line, in their order of appearance
RECURSIVE GivenItems(_)
GivenItems(occurrences) ==
    IF occurrences = <<>> THEN <<>>
    ELSE [i \in DOMAIN Head(occurrences).items |-> <<Head(occurrences).items[i]>>]
         \o GivenItems(Tail(occurrences))

\* C18: the values of a repeatable array flag, given as repeated
\* occurrences, comma-separated lists or JSON arrays, appear in the query
\* as repeated keys in their order of appearance on the command line.
C18_QueryKeepsOrder ==
    (helper = "array" /\ ret # None /\ ret.query = "built") =>
        ret.searchParams = [i \in DOMAIN GivenItems(arg.occurrences) |->
                        [key |-> arg.name, value |-> GivenItems(arg.occurrences)[i]]]

C18_Witness ==
    /\ helper = "array" /\ ret # None /\ ret.query = "built"
    /\ Len(arg.occurrences) = 2
    /\ arg.occurrences[1].form = "json" /\ arg.occurrences[2].form = "spaced"
    /\ arg.occurrences[1].items = <<"a", "7">> /\ arg.occurrences[2].items = <<"7", "a">>
    /\ Len(ret.searchParams) = 4

\* C19: two documents equal up to the insertion order of object keys get
\* the same fingerprint, and the same fingerprint-derived spec id.
C19_FingerprintIgnoresKeyOrder ==
    (helper = "stringify" /\ ret # None) =>
        /\ ret.loaded.fingerprint = ret.other.fingerprint
        /\ ret.loaded.id = ret.other.id

C19_Witness ==
    /\ helper = "stringify" /\ ret # None
    /\ arg.reversed = {} /\ arg.otherReversed = {1, 2}
    /\ DOMAIN arg.doc.heap[1].fields = {"a", "b"}
    /\ arg.doc.heap[1].fields["a"] = [node |-> 2]
    /\ DOMAIN arg.doc.heap[2].fields = {"a", "b"}
    /\ arg.doc.title = ""
    /\ ret.loaded.id.from = "fingerprint"
    /\ ret.loaded.id = ret.other.id

\* a path from the root: the keys and the array positions followed
StepsOf(value) ==
    IF value.kind = "object" THEN DOMAIN value.fields
    ELSE { "0" : i \in DOMAIN value.items }

Follow(value, step) ==
    IF value.kind = "object" THEN value.fields[step]
    ELSE value.items[1]

\* the refs met along a path, the root first; <<>> if the path leaves the
\* document or goes on after a scalar or after coming back to a node
RECURSIVE Walk(_, _, _)
Walk(doc, ref, path) ==
    IF path = <<>> THEN <<ref>>
    ELSE IF "scalar" \in DOMAIN ref THEN <<>>
    ELSE IF Head(path) \notin StepsOf(doc.heap[ref.node]) THEN <<>>
    ELSE LET rest == Walk(doc, Follow(doc.heap[ref.node], Head(path)), Tail(path))
         IN IF rest = <<>> \/ \E i \in 1..(Len(rest) - 1) : rest[i] = ref
            THEN <<>>
            ELSE <<ref>> \o rest

\* the paths whose last step comes back to a node already on the path
CyclicPaths(doc) ==
    { path \in UNION { [1..n -> {"a", "b", "0"}] : n \in 1..Cardinality(Nodes) } :
        LET refs == Walk(doc, [node |-> 1], path)
        IN /\ refs # <<>>
           /\ \E i \in 1..(Len(refs) - 1) : refs[i] = refs[Len(refs)] }

RECURSIVE At(_, _)
At(value, path) ==
    IF path = <<>> THEN value
    ELSE LET at == IF value.kind = "array" THEN 1
                   ELSE CHOOSE i \in DOMAIN value.members :
                           value.members[i].key = Head(path)
         IN At(value.members[at].value, Tail(path))

\* the number of values nested in one another
RECURSIVE Depth(_)
Depth(value) ==
    IF value.members = <<>> THEN 1
    ELSE 1 + Depth(value.members[
                 CHOOSE i \in DOMAIN value.members :
                    \A j \in DOMAIN value.members :
                       Depth(value.members[j].value) <= Depth(value.members[i].value)
             ].value)

\* the traversal ends: it never goes deeper than one value per node, plus
\* the sentinel and its member; and every cyclic reference is the sentinel
CyclesReplacedBy(key) ==
    (helper = "stringify" /\ ret # None) =>
          LET sorted == sort(arg.doc, arg.reversed, [node |-> 1], {})
          IN /\ Depth(sorted) <= Cardinality(Nodes) + 2
             /\ \A path \in CyclicPaths(arg.doc) :
                   At(sorted, path) =
                       [kind |-> "object", text |-> "",
                        members |-> <<[key |-> key, value |-> Scalar("true")]>>]

\* C20 (as stated): canonical serialization terminates on documents with
\* reference cycles and puts {"__circular": true} for each cyclic reference.
C20_CyclesBecomeCircular == CyclesReplacedBy("__circular")

\* C20 (amended): it terminates on documents with reference cycles and
\* puts {"__specli_circular": true} for each cyclic reference.
C20_CyclesBecomeSpecliCircular == CyclesReplacedBy("__specli_circular")

C20_Witness ==
    /\ helper = "stringify" /\ ret # None
    /\ arg.doc.heap[1].kind = "object" /\ DOMAIN arg.doc.heap[1].fields = {"a"}
    /\ arg.doc.heap[1].fields["a"] = [node |-> 2]
    /\ arg.doc.heap[2].kind = "array" /\ arg.doc.heap[2].items = <<[node |-> 1]>>
    /\ ret.loaded.fingerprint.sha256Hex =
          <<"{", "a", ":", "[", "{", "__specli_circular", ":", "true", "}", "]", "}">>

\* the actions of a command model, resource by resource
RECURSIVE ActionsOf(_)
ActionsOf(m) ==
    IF m = <<>> THEN <<>> ELSE m[1].actions \o ActionsOf(Tail(m))

\* C21: within one CommandModel every action's id differs from every other
\* action's id, so the index keyed by id holds every action.
C21_UniqueIds ==
    planPc = "built" =>
        \A i, j \in 1..Len(ActionsOf(model)) :
            i # j => ActionsOf(model)[i].id # ActionsOf(model)[j].id

MinimalOmits(omitted) ==
    (helper = "schema" /\ ret # None) =>
        /\ DOMAIN ret.minimal = DOMAIN ret.full \ omitted
        /\ \A f \in DOMAIN ret.minimal : ret.minimal[f] = ret.full[f]

\* C22 (as stated): the minimal `__schema` output has exactly the fields of
\* the full output except operations, planned and commandsIndex, each with
\* the value it has in the full output.
C22_MinimalOmitsThree == MinimalOmits({"operations", "planned", "commandsIndex"})

\* C22 (amended): it has exactly the fields of the full output except
\* servers, authSchemes, operations, planned and commandsIndex, each with
\* the value it has in the full output.
C22_MinimalOmitsFive ==
    MinimalOmits({"servers", "authSchemes", "operations", "planned", "commandsIndex"})

C22_Witness ==
    /\ helper = "schema" /\ ret # None
    /\ arg.servers = "1 server" /\ arg.commands = "2 commands"
    /\ DOMAIN ret.minimal =
          {"schemaVersion", "openapi", "spec", "capabilities", "commands"}
    /\ ret.minimal.commands = "2 commands"
    /\ ret.minimal.spec = ret.full.spec

\* C23: when the server answers an executed request with a non-2xx status,
\* the text output is `HTTP <status>` followed by the response body.
C23_HttpErrorText ==
    ( /\ call = "execute" /\ pc = "done"
      /\ built.res # None /\ ~OkStatus(built.res.status)
      /\ result.response = built.res )
    => renderToText(result) =
          [first |-> "HTTP", status |-> built.res.status, rest |-> "response body"]

\* C24: in every CommandModel the resources are in ascending order of name
\* and the actions of a resource in order of action, then path, then
\* method, whatever the order of the planned operations; every planned
\* operation is in the model.
C24_ModelIsSorted ==
    (helper = "model" /\ ret # None) =>
        LET rs == ret.resources
        IN /\ \A i, j \in DOMAIN rs :
                 i < j => KebabLess(rs[i].resource, rs[j].resource)
           /\ \A r \in DOMAIN rs : \A i, j \in DOMAIN rs[r].actions :
                 i < j =>
                    LET a == rs[r].actions[i]
                        b == rs[r].actions[j]
                    IN \/ KebabLess(a.action, b.action)
                       \/ /\ a.action = b.action
                          /\ KebabLess(Flatten(a.path), Flatten(b.path))
                       \/ /\ a.action = b.action /\ a.path = b.path
                          /\ a.method \in {b.method, "GET"}
           /\ Len(ActionsOf(rs)) = Len(arg)
           /\ \A i \in DOMAIN arg : \E r \in DOMAIN rs :
                 /\ rs[r].resource = arg[i].resource
                 /\ \E k \in DOMAIN rs[r].actions : rs[r].actions[k].key = arg[i].key

C24_Witness ==
    /\ helper = "model" /\ ret # None
    /\ Len(arg) = 3
    /\ arg[1].resource = <<"users">> /\ arg[1].action = <<"list">>
    /\ arg[2].resource = <<"users">> /\ arg[2].action = <<"get">>
    /\ arg[3].resource = <<"teams">>
    /\ Len(ret.resources) = 2
    /\ ret.resources[1].resource = <<"teams">>
    /\ ret.resources[2].actions[1].action = <<"get">>
    /\ ret.resources[2].actions[2].action = <<"list">>

\* no scheme comes from --auth, from the profile or from the embedded default
NoSchemeSelected(input) ==
    /\ ~Truthy(input.globals.auth)
    /\ ~(input.profile.exists /\ Truthy(input.profile.authScheme))
    /\ ~Truthy(input.embeddedDefaults.auth)

MissingCredentialErrors ==
    {"Missing token", "Missing --username", "Missing --password", "Missing --api-key"}

\* C25: when the action's AuthSummary has no alternatives and no scheme is
\* selected by --auth, the profile or the embedded default, buildRequest
\* puts no credential on the request and does not fail for a missing one.
C25_NoAuthWhenDisabled ==
    ( /\ built # None
      /\ inp.action.auth.alternatives = <<>>
      /\ NoSchemeSelected(inp) )
    => /\ built.request.credential = NoCredential
       /\ built.request.thrown \notin MissingCredentialErrors

----------------------------------------------------------------------------
(* The profile store and the secret store, and the commands of main that   *)
(* read and write them (cli/main.ts, runtime/profile).                      *)

MaxCommands == 5

defaultProfileName == "default"

\* profile names in localeCompare order
NameOrder == <<"", "default", "work">>

ProfileNames == RangeOf(NameOrder)

NameRank(name) == CHOOSE i \in 1..Len(NameOrder) : NameOrder[i] = name

LoginTokens == {Undef, "", "token-1", "token-2"}

NoProfiles == [profiles |-> <<>>, defaultProfile |-> Undef]

NotFound == [exists |-> FALSE, name |-> Undef, server |-> Undef, authScheme |-> Undef]

HasProfile(data, name) ==
    \E i \in 1..Len(data.profiles) : data.profiles[i].name = name

getProfile_anyName(data, name) ==
    [exists |-> TRUE, name |-> name, server |-> Undef, authScheme |-> Undef]

getProfile(data, name) ==
    LET wanted == Coalesce(name, data.defaultProfile)
        Wanted(p) == p.name = wanted
    IN IF ~Truthy(wanted) \/ ~HasProfile(data, wanted) THEN NotFound
       ELSE LET found == SelectSeq(data.profiles, Wanted)[1]
            IN [exists |-> TRUE, name |-> found.name, server |-> found.server,
                authScheme |-> found.authScheme]

\* filter out the name, push, sort by name
upsertProfile(data, profile) ==
    LET Before(p) == NameRank(p.name) < NameRank(profile.name)
        After(p) == NameRank(p.name) > NameRank(profile.name)
    IN [data EXCEPT !.profiles = SelectSeq(data.profiles, Before)
                                    \o <<profile>>
                                    \o SelectSeq(data.profiles, After)]

removeProfile(data, name) ==
    LET Others(p) == p.name # name
    IN [data EXCEPT !.profiles = SelectSeq(data.profiles, Others)]

setToken_keepsFirst(store, profile, token) ==
    IF ~isBun \/ store[profile] # Undef THEN store
    ELSE [store EXCEPT ![profile] = token]

\* secrets.set, which only Bun has
setToken(store, profile, token) ==
    IF ~isBun THEN store ELSE [store EXCEPT ![profile] = token]

getToken(store, profile) == IF ~isBun THEN Undef ELSE store[profile]

deleteToken(store, profile) ==
    IF ~isBun THEN store ELSE [store EXCEPT ![profile] = Undef]

InitMain ==
    /\ profilesFile = NoProfiles
    /\ secrets = [name \in ProfileNames |-> Undef]
    /\ isBun \in BOOLEAN
    /\ lastLogin = Undef
    /\ sent = None
    /\ invocations = 0
    /\ IdlePlan /\ IdleExec /\ IdleRender /\ IdleAuth /\ IdleHelpers /\ IdleTools

\* login [token]: the token argument, or the trimmed text of stdin
Login ==
    /\ invocations < MaxCommands
    /\ \E token \in LoginTokens :
          IF ~Truthy(token)
          THEN UNCHANGED <<profilesFile, secrets, lastLogin>>
          ELSE LET file == profilesFile
               IN /\ profilesFile' =
                        IF ~HasProfile(file, defaultProfileName)
                        THEN [upsertProfile(file, [name |-> defaultProfileName,
                                                   server |-> Undef,
                                                   authScheme |-> Undef])
                                 EXCEPT !.defaultProfile = defaultProfileName]
                        ELSE IF ~Truthy(file.defaultProfile)
                        THEN [file EXCEPT !.defaultProfile = defaultProfileName]
                        ELSE file
                  /\ secrets' = setToken(secrets, defaultProfileName, token)
                  /\ lastLogin' = token
    /\ sent' = None
    /\ invocations' = invocations + 1
    /\ UNCHANGED <<isBun, planVars, execVars, renderVars, authVars, helperVars,
                   toolVars>>

Logout ==
    /\ invocations < MaxCommands
    /\ secrets' = deleteToken(secrets, defaultProfileName)
    /\ lastLogin' = Undef
    /\ sent' = None
    /\ invocations' = invocations + 1
    /\ UNCHANGED <<profilesFile, isBun, planVars, execVars, renderVars, authVars,
                   helperVars, toolVars>>

\* an action of the spec run without a token on the command line
Request ==
    /\ invocations < MaxCommands
    /\ \E authSchemes \in AuthSchemeLists, alternatives \in AlternativeLists :
          LET profile == getProfile(profilesFile, defaultProfileName)
          IN sent' = buildRequest(
                        [DefaultInput EXCEPT
                            !.profile = profile,
                            !.storedToken = IF profile.exists
                                            THEN getToken(secrets, profile.name)
                                            ELSE Undef,
                            !.authSchemes = authSchemes,
                            !.action.auth.alternatives = alternatives])
    /\ invocations' = invocations + 1
    /\ UNCHANGED <<profilesFile, secrets, isBun, lastLogin, planVars, execVars,
                   renderVars, authVars, helperVars, toolVars>>

\* profile set --name <name> [--auth <scheme>] [--default]
ProfileSet ==
    /\ invocations < MaxCommands
    /\ \E name \in ProfileNames, auth \in {Undef, "bearerAuth"}, default \in BOOLEAN :
          LET file == profilesFile
              next == upsertProfile(file, [name |-> name, server |-> Undef,
                                           authScheme |-> auth])
          IN profilesFile' = IF default THEN [next EXCEPT !.defaultProfile = name]
                             ELSE next
    /\ sent' = None
    /\ invocations' = invocations + 1
    /\ UNCHANGED <<secrets, isBun, lastLogin, planVars, execVars, renderVars,
                   authVars, helperVars, toolVars>>

\* profile rm --name <name>
ProfileRm ==
    /\ invocations < MaxCommands
    /\ \E name \in ProfileNames :
          LET file == profilesFile
              removed == removeProfile(file, name)
          IN profilesFile' = IF file.defaultProfile = name
                             THEN [removed EXCEPT !.defaultProfile = Undef]
                             ELSE removed
    /\ sent' = None
    /\ invocations' = invocations + 1
    /\ UNCHANGED <<secrets, isBun, lastLogin, planVars, execVars, renderVars,
                   authVars, helperVars, toolVars>>

\* profile use --name <name>, which throws for a profile that is not there
ProfileUse ==
    /\ invocations < MaxCommands
    /\ \E name \in ProfileNames :
          LET file == profilesFile
              profile == getProfile(file, name)
          IN profilesFile' = IF ~profile.exists THEN file
                             ELSE [file EXCEPT !.defaultProfile = name]
    /\ sent' = None
    /\ invocations' = invocations + 1
    /\ UNCHANGED <<secrets, isBun, lastLogin, planVars, execVars, renderVars,
                   authVars, helperVars, toolVars>>

NextSession == Login \/ Logout \/ Request

SpecSession == InitMain /\ [][NextSession]_vars

NextProfiles == ProfileSet \/ ProfileRm \/ ProfileUse \/ Login

SpecProfiles == InitMain /\ [][NextProfiles]_vars

\* C26: across login, logout and requests made without a token on the
\* command line, a stored token put on the request is the token of the
\* latest login that no logout followed; once logged in on a runtime with a
\* secret store, no request fails for a missing token.
C26_StoredTokenIsLastLogin ==
    sent # None =>
        /\ sent.credential.kind = "bearer" =>
              Truthy(lastLogin) /\ sent.credential.value = lastLogin
        /\ (isBun /\ Truthy(lastLogin)) => sent.thrown # "Missing token"

C26_Witness ==
    /\ sent # None /\ invocations = MaxCommands
    /\ lastLogin = "token-2"
    /\ sent.credential.kind = "bearer" /\ sent.credential.value = "token-2"

\* C30: after any sequence of profile set, profile rm, profile use and
\* login from an empty store, defaultProfile is unset or names a profile of
\* the store.
C30_DefaultProfileExists ==
    profilesFile # None =>
        \/ profilesFile.defaultProfile = Undef
        \/ HasProfile(profilesFile, profilesFile.defaultProfile)

C30_Witness ==
    /\ profilesFile # None /\ invocations = MaxCommands
    /\ profilesFile.defaultProfile = "work"
    /\ HasProfile(profilesFile, "work") /\ HasProfile(profilesFile, "default")

----------------------------------------------------------------------------
(* The context cache of the AI tools (ai/tools.ts): tool calls run as      *)
(* async functions on one event loop and interleave at their awaits.        *)

MaxCalls == 3

SpecStrings == {"a.yaml", "b.yaml"}

InitTools ==
    /\ contextCache = {}
    /\ toolCalls = [i \in 1..MaxCalls |-> [pc |-> "idle", spec |-> Undef]]
    /\ builds = [s \in SpecStrings |-> 0]
    /\ IdlePlan /\ IdleExec /\ IdleRender /\ IdleAuth /\ IdleHelpers /\ IdleCli

\* getContext(spec) up to its return or to the await of buildRuntimeContext
GetContext(i) ==
    /\ toolCalls[i].pc = "idle"
    /\ \E spec \in SpecStrings :
          IF spec \in contextCache
          THEN /\ toolCalls' = [toolCalls EXCEPT ![i] = [pc |-> "done", spec |-> spec]]
               /\ UNCHANGED builds
          ELSE /\ toolCalls' = [toolCalls EXCEPT ![i] = [pc |-> "building", spec |-> spec]]
               /\ builds' = [builds EXCEPT ![spec] = @ + 1]
    /\ UNCHANGED <<contextCache, planVars, execVars, renderVars, authVars,
                   helperVars, mainVars>>

\* buildRuntimeContext resolves: contextCache.set(spec, context)
ContextBuilt(i) ==
    /\ toolCalls[i].pc = "building"
    /\ contextCache' = contextCache \cup {toolCalls[i].spec}
    /\ toolCalls' = [toolCalls EXCEPT ![i].pc = "done"]
    /\ UNCHANGED <<builds, planVars, execVars, renderVars, authVars,
                   helperVars, mainVars>>

\* buildRuntimeContext rejects: getContext rejects and caches nothing
ContextFails(i) ==
    /\ toolCalls[i].pc = "building"
    /\ toolCalls' = [toolCalls EXCEPT ![i].pc = "failed"]
    /\ UNCHANGED <<contextCache, builds, planVars, execVars, renderVars, authVars,
                   helperVars, mainVars>>

\* clearCache(spec?)
clearCache ==
    /\ \E spec \in SpecStrings \cup {Undef} :
          LET cleared == IF Truthy(spec) THEN {spec} ELSE SpecStrings
          IN /\ contextCache' = contextCache \ cleared
             /\ builds' = [s \in SpecStrings |-> IF s \in cleared THEN 0 ELSE builds[s]]
    /\ UNCHANGED <<toolCalls, planVars, execVars, renderVars, authVars,
                   helperVars, mainVars>>

NextTools ==
    \/ \E i \in 1..MaxCalls : GetContext(i)
    \/ \E i \in 1..MaxCalls : ContextBuilt(i)
    \/ \E i \in 1..MaxCalls : ContextFails(i)
    \/ clearCache

SpecTools == InitTools /\ [][NextTools]_vars

\* C27: whatever the interleaving of the tool calls that use one spec
\* string, the context of that spec is built at most once between two
\* clears of the cache.
C27_BuiltOnce ==
    \A s \in DOMAIN builds : builds[s] <= 1

\* C28: for every CommandResult, the ok field of its JSON rendering is true
\* exactly when its exit code is 0.
C28_OkIffExitZero ==
    (written # None /\ written.format = "json") =>
        (written.output.ok <=> written.exitCode = 0)

\* the text holds the token as a run of consecutive characters
Contains(text, token) ==
    \E i \in 1..(Len(text) - Len(token) + 1) :
        SubSeq(text, i, i + Len(token) - 1) = token

====
